---- MODULE Spec2Model ----
(***************************************************************************)
(* CHIP-8 emulator: the instruction decoder (instruction.rs), the          *)
(* interpreter's fetch/decode/execute loop (interpreter.rs) and the window *)
(* thread it talks to over two channels (window.rs).                       *)
(***************************************************************************)
EXTENDS Integers, Sequences, FiniteSets, TLC

VARIABLES
    memory,             \* Interpreter.memory: Vec<u8>, RAM_SIZE bytes
    program_counter,    \* Interpreter.program_counter: u16
    registers,          \* Interpreter.registers: [u8; 16]
    address_register,   \* Interpreter.address_register: u16
    sound_register,     \* Interpreter.sound_register: u8
    timer_register,     \* Interpreter.timer_register: u8
    stack_pointer,      \* Interpreter.stack_pointer: u8
    stack,              \* Interpreter.stack: [u16; 16]
    frame_buffer,       \* Arc<RwLock<[u64; 32]>>: row -> set of set bit positions
    rx,                 \* commands in flight, Window.sender -> window thread
    respond_rx,         \* responses in flight, window thread -> Window.receiver
    thread,             \* the window thread: "running", "exited" or "panicked"
    wait_for_key,       \* the window thread's local wait_for_key
    instruction_bytes,  \* execute()'s local: the word fetched last
    instruction,        \* execute()'s local: the decoder's result for it
    status,             \* where the engine is: see EngineStatus
    timer_clock,        \* execute()'s local: whole timer periods elapsed since it
    delay_set,          \* history: the last LD DT,Vx and the periods elapsed since
    rw_lock,            \* the RwLock around frame_buffer: "free", "read" or "write"
    engine_at,          \* the engine's position inside draw_sprite / Window::clear
    window_at,          \* the window thread's position inside Window::draw
    canvas,             \* what Window::draw has put on the canvas, row by row
    whole,              \* history: the frame buffers between whole DRW/CLS
    before              \* the engine's state when its last loop body began

vars == <<memory, program_counter, registers, address_register, sound_register,
          timer_register, stack_pointer, stack, frame_buffer, rx, respond_rx,
          thread, wait_for_key, instruction_bytes, instruction, status,
          timer_clock, delay_set, rw_lock, engine_at, window_at, canvas, whole,
          before>>

\* The state of the steps taken under the frame buffer's lock.
lock_vars == <<rw_lock, engine_at, window_at, canvas, whole>>

----------------------------------------------------------------------------
(* Program constants *)

RAM_SIZE == 4096
PROGRAM_START == 512
REG_VF == 15
HEIGHT == 32
WIDTH == 64
STACK_SIZE == 16

U8 == 256
U16 == 65536

----------------------------------------------------------------------------
(* Bit operations on naturals, as the code's |, &, ^, << and >> compute them *)

RECURSIVE BitAnd(_, _)
BitAnd(a, b) ==
    IF a = 0 \/ b = 0 THEN 0
    ELSE (a % 2) * (b % 2) + 2 * BitAnd(a \div 2, b \div 2)

RECURSIVE BitOr(_, _)
BitOr(a, b) ==
    IF a = 0 THEN b
    ELSE IF b = 0 THEN a
    ELSE (IF a % 2 = 1 \/ b % 2 = 1 THEN 1 ELSE 0) + 2 * BitOr(a \div 2, b \div 2)

RECURSIVE BitXor(_, _)
BitXor(a, b) ==
    IF a = 0 THEN b
    ELSE IF b = 0 THEN a
    ELSE ((a + b) % 2) + 2 * BitXor(a \div 2, b \div 2)

ShiftLeft(a, n) == a * (2 ^ n)
ShiftRight(a, n) == a \div (2 ^ n)

----------------------------------------------------------------------------
(* instruction.rs: Instruction and TryFrom<u16> *)

\* let ident = ((value >> 12) & 0xF, (value >> 8) & 0xF, (value >> 4) & 0xF, value & 0xF)
ident(value) ==
    << BitAnd(ShiftRight(value, 12), 15),
       BitAnd(ShiftRight(value, 8), 15),
       BitAnd(ShiftRight(value, 4), 15),
       BitAnd(value, 15) >>

\* let address = |x, y, k| (x << 8) | (y << 4) | k;
address(x, y, k) == BitOr(BitOr(ShiftLeft(x, 8), ShiftLeft(y, 4)), k)

\* let byte = |y, k| ((y << 4) | k) as u8;
byte(y, k) == BitOr(ShiftLeft(y, 4), k) % U8

Addr(name, a) == [op |-> name, addr |-> a]
VxByte(name, x, kk) == [op |-> name, x |-> x, byte |-> kk]
VxVy(name, x, y) == [op |-> name, x |-> x, y |-> y]
Vx(name, x) == [op |-> name, x |-> x]
Plain(name) == [op |-> name]
DrwInstr(x, y, n) == [op |-> "Drw", x |-> x, y |-> y, n |-> n]

Ok(i) == [ok |-> TRUE, instr |-> i]
Err(value) == [ok |-> FALSE, err |-> value]

\* The match of try_from on ident, arm by arm in the order of the source.
match_ident(value, id) ==
    LET n1 == id[1]
        x  == id[2]
        y  == id[3]
        k  == id[4]
    IN  IF id = <<0, 0, 14, 0>> THEN Ok(Plain("Cls"))
        ELSE IF id = <<0, 0, 14, 14>> THEN Ok(Plain("Ret"))
        ELSE IF n1 = 0 THEN Ok(Addr("Sys", address(x, y, k)))
        ELSE IF n1 = 1 THEN Ok(Addr("JpAddr", address(x, y, k)))
        ELSE IF n1 = 2 THEN Ok(Addr("Call", address(x, y, k)))
        ELSE IF n1 = 3 THEN Ok(VxByte("SeVxByte", x, byte(y, k)))
        ELSE IF n1 = 4 THEN Ok(VxByte("SneVxByte", x, byte(y, k)))
        ELSE IF n1 = 5 /\ k = 0 THEN Ok(VxVy("SeVxVy", x, y))
        ELSE IF n1 = 6 THEN Ok(VxByte("LdVxByte", x, byte(y, k)))
        ELSE IF n1 = 7 THEN Ok(VxByte("AddVxByte", x, byte(y, k)))
        ELSE IF n1 = 8 /\ k = 0 THEN Ok(VxVy("LdVxVy", x, y))
        ELSE IF n1 = 8 /\ k = 1 THEN Ok(VxVy("Or", x, y))
        ELSE IF n1 = 8 /\ k = 2 THEN Ok(VxVy("And", x, y))
        ELSE IF n1 = 8 /\ k = 3 THEN Ok(VxVy("Xor", x, y))
        ELSE IF n1 = 8 /\ k = 4 THEN Ok(VxVy("AddVxVy", x, y))
        ELSE IF n1 = 8 /\ k = 5 THEN Ok(VxVy("Sub", x, y))
        ELSE IF n1 = 8 /\ k = 6 THEN Ok(VxVy("Shr", x, y))
        ELSE IF n1 = 8 /\ k = 7 THEN Ok(VxVy("Subn", x, y))
        ELSE IF n1 = 8 /\ k = 14 THEN Ok(VxVy("Shl", x, y))
        ELSE IF n1 = 9 /\ k = 0 THEN Ok(VxVy("SneVxVy", x, y))
        ELSE IF n1 = 10 THEN Ok(Addr("LdIAddr", address(x, y, k)))
        ELSE IF n1 = 11 THEN Ok(Addr("JpV0Addr", address(x, y, k)))
        ELSE IF n1 = 12 THEN Ok(VxByte("Rnd", x, byte(y, k)))
        ELSE IF n1 = 13 THEN Ok(DrwInstr(x, y, k))
        ELSE IF n1 = 14 /\ y = 9 /\ k = 14 THEN Ok(Vx("Skp", x))
        ELSE IF n1 = 14 /\ y = 10 /\ k = 1 THEN Ok(Vx("Sknp", x))
        ELSE IF n1 = 15 /\ y = 0 /\ k = 7 THEN Ok(Vx("LdVxDt", x))
        ELSE IF n1 = 15 /\ y = 0 /\ k = 10 THEN Ok(Vx("LdVxK", x))
        ELSE IF n1 = 15 /\ y = 1 /\ k = 5 THEN Ok(Vx("LdDtVx", x))
        ELSE IF n1 = 15 /\ y = 1 /\ k = 8 THEN Ok(Vx("LdStVx", x))
        ELSE IF n1 = 15 /\ y = 1 /\ k = 14 THEN Ok(Vx("AddIVx", x))
        ELSE IF n1 = 15 /\ y = 2 /\ k = 9 THEN Ok(Vx("LdFVx", x))
        ELSE IF n1 = 15 /\ y = 3 /\ k = 3 THEN Ok(Vx("LdBVx", x))
        ELSE IF n1 = 15 /\ y = 5 /\ k = 5 THEN Ok(Vx("LdIVx", x))
        ELSE IF n1 = 15 /\ y = 6 /\ k = 5 THEN Ok(Vx("LdVxI", x))
        ELSE Err(value)

\* A decoder that takes 5xyN for SE Vx,Vy whatever N is.
try_from_any_5xyN(value) ==
    IF ident(value)[1] = 5
    THEN Ok(VxVy("SeVxVy", ident(value)[2], ident(value)[3]))
    ELSE match_ident(value, ident(value))

\* A decoder whose Sys arm comes before the Cls and Ret arms.
try_from_sys_first(value) ==
    IF ident(value)[1] = 0
    THEN Ok(Addr("Sys", address(ident(value)[2], ident(value)[3], ident(value)[4])))
    ELSE match_ident(value, ident(value))

\* impl TryFrom<u16> for Instruction
try_from(value) == match_ident(value, ident(value))

\* No word has been decoded yet.
NoResult == [ok |-> FALSE, none |-> TRUE]

----------------------------------------------------------------------------
(* window.rs: the font and the commands of the window thread *)

\* Window::DIGITS
DIGITS ==
    << <<240, 144, 144, 144, 240>>, <<32, 96, 32, 32, 112>>,
       <<240, 16, 240, 128, 240>>,  <<240, 16, 240, 16, 240>>,
       <<144, 144, 240, 16, 16>>,   <<240, 128, 240, 16, 240>>,
       <<240, 128, 240, 144, 240>>, <<240, 16, 32, 64, 64>>,
       <<240, 144, 240, 144, 240>>, <<240, 144, 240, 16, 240>>,
       <<240, 144, 240, 144, 144>>, <<224, 144, 224, 144, 224>>,
       <<240, 128, 128, 128, 240>>, <<224, 144, 144, 144, 224>>,
       <<240, 128, 240, 128, 240>>, <<240, 128, 240, 128, 128>> >>

\* enum WindowCommand
CmdDraw == [cmd |-> "Draw"]
CmdClear == [cmd |-> "Clear"]
CmdWaitKeyPress == [cmd |-> "WaitKeyPress"]
CmdIsPressed(key) == [cmd |-> "IsPressed", key |-> key]
\* Window::control_sound would send this one; nothing calls it.
CmdControlSound(playing) == [cmd |-> "ControlSound", playing |-> playing]

----------------------------------------------------------------------------
(* interpreter.rs: memory access *)

\* vec![0u8; RAM_SIZE] after the loop of new() that writes the font: digit
\* idx goes to idx * digit.len(), so byte j of digit idx is at idx * 5 + j.
FontByte(at) ==
    IF at < Len(DIGITS) * Len(DIGITS[1])
    THEN DIGITS[(at \div Len(DIGITS[1])) + 1][(at % Len(DIGITS[1])) + 1]
    ELSE 0

\* The variable memory stands for the RAM_SIZE bytes of Interpreter.memory.
\* It holds the bytes that differ from FontByte, address by address, and no
\* others, so that two memories are equal exactly when their bytes are.
\* mem_byte is memory[at] for at < RAM_SIZE.
mem_byte(mem, at) == IF at \in DOMAIN mem THEN mem[at] ELSE FontByte(at)

\* A splice that takes any range, growing the vector.
write_anywhere(at, len) == TRUE

\* write_bytes: Vec::splice of address..address+len; the range must lie in
\* the vector, or the call panics.
write_in_range(at, len) == at + len <= RAM_SIZE

write_bytes(mem, at, bytes) ==
    LET touched == at..(at + Len(bytes) - 1)
        new_byte(a) == IF a \in touched THEN bytes[a - at + 1] ELSE mem_byte(mem, a)
    IN  [a \in {t \in (DOMAIN mem) \cup touched : new_byte(t) # FontByte(t)} |->
            new_byte(a)]

\* read_u16: the slice address..=address+1 must lie in the vector, or the
\* call panics; the two bytes are read big-endian.
read_u16_in_range(at) == at + 1 < RAM_SIZE

read_u16(mem, at) == mem_byte(mem, at) * U8 + mem_byte(mem, at + 1)

\* read_byte: memory.get(address), None outside the vector.
read_byte_is_some(at) == at < RAM_SIZE

\* read_bytes: the slice address..address+len must lie in the vector.
read_bytes_in_range(at, len) == at + len <= RAM_SIZE

read_bytes(mem, at, len) == [i \in 1..len |-> mem_byte(mem, at + i - 1)]

----------------------------------------------------------------------------
(* interpreter.rs: Interpreter::new *)

\* The memory after new(rom_file): the font, then the ROM written from
\* PROGRAM_START.
new_memory(rom_file) == write_bytes(<< >>, PROGRAM_START, rom_file)

\* The bytes of a ROM given as 16-bit words, big-endian.
RomBytes(words) ==
    [i \in 1..(2 * Len(words)) |->
        IF i % 2 = 1 THEN words[(i + 1) \div 2] \div U8
        ELSE words[i \div 2] % U8]

----------------------------------------------------------------------------
(* interpreter.rs: the interpreter as a value.  The operators below compute  *)
(* on a record `self` with the fields of struct Interpreter, plus            *)
(*   sent:     the commands the step hands to Window.sender, in order;       *)
(*   panicked: the step hit a panic (an index out of range, an unwrap of     *)
(*             None, an arithmetic overflow in a build that checks them).    *)
(* overflow_checks says whether the build panics on integer overflow (a      *)
(* debug build) or wraps (a release build).                                  *)

Self ==
    [ memory |-> memory,
      program_counter |-> program_counter,
      registers |-> registers,
      address_register |-> address_register,
      sound_register |-> sound_register,
      timer_register |-> timer_register,
      stack_pointer |-> stack_pointer,
      stack |-> stack,
      frame_buffer |-> frame_buffer,
      sent |-> << >>,
      panicked |-> FALSE ]

Panic(self) == [self EXCEPT !.panicked = TRUE]

\* u8::wrapping_add, u8::wrapping_sub, u8::wrapping_mul, u8::saturating_sub
wrapping_add(a, b) == (a + b) % U8
wrapping_sub(a, b) == (a + U8 - b) % U8
wrapping_mul(a, b) == (a * b) % U8
saturating_sub(a, b) == IF a >= b THEN a - b ELSE 0

\* push_subroutine with the pointer incremented after the store.
push_subroutine_store_first(self, addr, overflow_checks) ==
    IF self.stack_pointer >= STACK_SIZE THEN Panic(self)
    ELSE [self EXCEPT !.stack[self.stack_pointer] = self.program_counter,
                      !.stack_pointer = (self.stack_pointer + 1) % U8,
                      !.program_counter = addr]

\* fn push_subroutine
push_subroutine(self, addr, overflow_checks) ==
    LET sp == self.stack_pointer + 1
    IN  IF sp >= U8 /\ overflow_checks THEN Panic(self)
        ELSE IF sp % U8 >= STACK_SIZE THEN Panic(self)
        ELSE [self EXCEPT !.stack_pointer = sp % U8,
                          !.stack[sp % U8] = self.program_counter,
                          !.program_counter = addr]

\* pop_subroutine that leaves the stack pointer where it is.
pop_subroutine_keeps_pointer(self, overflow_checks) ==
    IF self.stack_pointer >= STACK_SIZE THEN Panic(self)
    ELSE [self EXCEPT !.program_counter = self.stack[self.stack_pointer]]

\* fn pop_subroutine
pop_subroutine(self, overflow_checks) ==
    IF self.stack_pointer >= STACK_SIZE THEN Panic(self)
    ELSE IF self.stack_pointer = 0 /\ overflow_checks THEN Panic(self)
    ELSE [self EXCEPT !.program_counter = self.stack[self.stack_pointer],
                      !.stack_pointer = (self.stack_pointer + U8 - 1) % U8]

\* A skip that does not look at its condition.
skip_always(self, condition) == [self EXCEPT !.program_counter = @ + 2]

\* The four skips, and Skp/Sknp once the window has answered.
skip_if(self, condition) ==
    IF condition THEN [self EXCEPT !.program_counter = @ + 2] ELSE self

\* AddVxVy without the carry flag.
add_vx_vy_no_carry(self, reg_x, reg_y) ==
    [self EXCEPT !.registers[reg_x] =
                     (self.registers[reg_x] + self.registers[reg_y]) % U8]

\* AddVxVy that writes the flag first and the sum after it.
add_vx_vy_flag_first(self, reg_x, reg_y) ==
    LET res == self.registers[reg_x] + self.registers[reg_y]
        flagged == [self.registers EXCEPT ![REG_VF] = IF res > 255 THEN 1 ELSE 0]
    IN  [self EXCEPT !.registers = [flagged EXCEPT ![reg_x] = res % U8]]

\* Instruction::AddVxVy
add_vx_vy(self, reg_x, reg_y) ==
    LET res == self.registers[reg_x] + self.registers[reg_y]
        stored == [self.registers EXCEPT ![reg_x] = res % U8]
    IN  [self EXCEPT !.registers =
            [stored EXCEPT ![REG_VF] = IF res > 255 THEN 1 ELSE 0]]

\* Sub with the flag set on x > y only.
sub_strict(self, reg_x, reg_y) ==
    LET x == self.registers[reg_x]
        y == self.registers[reg_y]
        stored == [self.registers EXCEPT ![reg_x] = wrapping_sub(x, y)]
    IN  [self EXCEPT !.registers =
            [stored EXCEPT ![REG_VF] = IF x > y THEN 1 ELSE 0]]

\* Instruction::Sub
sub(self, reg_x, reg_y) ==
    LET x == self.registers[reg_x]
        y == self.registers[reg_y]
        stored == [self.registers EXCEPT ![reg_x] = wrapping_sub(x, y)]
    IN  [self EXCEPT !.registers =
            [stored EXCEPT ![REG_VF] = IF x >= y THEN 1 ELSE 0]]

\* Instruction::Subn
subn(self, reg_x, reg_y) ==
    LET x == self.registers[reg_x]
        y == self.registers[reg_y]
        stored == [self.registers EXCEPT ![reg_x] = wrapping_sub(y, x)]
    IN  [self EXCEPT !.registers =
            [stored EXCEPT ![REG_VF] = IF y >= x THEN 1 ELSE 0]]

\* Shr that shifts Vx in place.
shr_in_place(self, reg_x, reg_y) ==
    LET x == self.registers[reg_x]
        stored == [self.registers EXCEPT ![reg_x] = ShiftRight(x, 1)]
    IN  [self EXCEPT !.registers = [stored EXCEPT ![REG_VF] = BitAnd(x, 1)]]

\* Instruction::Shr
shr(self, reg_x, reg_y) ==
    LET y == self.registers[reg_y]
        stored == [self.registers EXCEPT ![reg_x] = ShiftRight(y, 1)]
    IN  [self EXCEPT !.registers = [stored EXCEPT ![REG_VF] = BitAnd(y, 1)]]

\* Instruction::Shl (y << 1 on a u8 drops the bit shifted out)
shl(self, reg_x, reg_y) ==
    LET y == self.registers[reg_y]
        stored == [self.registers EXCEPT ![reg_x] = ShiftLeft(y, 1) % U8]
    IN  [self EXCEPT !.registers =
            [stored EXCEPT ![REG_VF] = BitAnd(ShiftRight(y, 7), 1)]]

\* Instruction::LdBVx: the digits of val from the least significant one, one
\* byte each from address_register on, until val is 0.
RECURSIVE ld_b_vx_loop(_, _, _)
ld_b_vx_loop(self, val, i) ==
    IF val = 0 THEN self
    ELSE IF ~write_in_range(self.address_register + i, 1) THEN Panic(self)
    ELSE ld_b_vx_loop(
            [self EXCEPT !.memory =
                write_bytes(@, self.address_register + i, <<val % 10>>)],
            val \div 10, i + 1)

ld_b_vx(self, reg) == ld_b_vx_loop(self, self.registers[reg], 0)

\* Instruction::LdIVx: registers 0..=reg of a copy of the register file
RECURSIVE ld_i_vx_loop(_, _, _, _)
ld_i_vx_loop(self, regs, reg, i) ==
    IF i > reg THEN self
    ELSE IF ~write_in_range(self.address_register + i, 1) THEN Panic(self)
    ELSE ld_i_vx_loop(
            [self EXCEPT !.memory =
                write_bytes(@, self.address_register + i, <<regs[i]>>)],
            regs, reg, i + 1)

\* A store of V0 up to, but not including, Vx.
ld_i_vx_exclusive(self, reg) == ld_i_vx_loop(self, self.registers, reg - 1, 0)

ld_i_vx(self, reg) == ld_i_vx_loop(self, self.registers, reg, 0)

\* Instruction::LdVxI
RECURSIVE ld_vx_i_loop(_, _, _)
ld_vx_i_loop(self, reg, i) ==
    IF i > reg THEN self
    ELSE IF ~read_byte_is_some(self.address_register + i) THEN Panic(self)
    ELSE ld_vx_i_loop(
            [self EXCEPT !.registers[i] = mem_byte(self.memory, self.address_register + i)],
            reg, i + 1)

ld_vx_i(self, reg) == ld_vx_i_loop(self, reg, 0)

\* A u64 row of the frame buffer is the set of its set bit positions, bit 0
\* the least significant.
Bits(b) == {j \in 0..7 : (b \div (2 ^ j)) % 2 = 1}

\* A rotation the wrong way round.
rotate_left(bits, n) == {(j + n) % WIDTH : j \in bits}

\* u64::rotate_right
rotate_right(bits, n) == {(j + WIDTH - (n % WIDTH)) % WIDTH : j \in bits}

\* A blit that only sets pixels.
RowOr(a, b) == a \cup b

\* ^ on rows
RowXor(a, b) == (a \ b) \cup (b \ a)

\* fn draw_sprite: the loop over draw_bytes
RECURSIVE draw_rows(_, _, _, _, _)
draw_rows(self, draw_bytes, x, y, i) ==
    IF i = Len(draw_bytes) THEN self
    ELSE LET coord == (y + i) % HEIGHT
             original == self.frame_buffer[coord]
             res == RowXor(original, rotate_right(Bits(draw_bytes[i + 1]), x + 8))
         IN  draw_rows(
                [self EXCEPT !.registers[REG_VF] =
                                 IF (original \ res) # {} THEN 1 ELSE 0,
                             !.frame_buffer[coord] = res],
                draw_bytes, x, y, i + 1)

\* fn draw_sprite
draw_sprite(self, x, y, n) ==
    IF ~read_bytes_in_range(self.address_register, n) THEN Panic(self)
    ELSE draw_rows(self, read_bytes(self.memory, self.address_register, n), x, y, 0)

\* A clear that tells the window and leaves the frame buffer alone.
clear_without_fill(self) == [self EXCEPT !.sent = Append(@, CmdClear)]

\* Window::clear (the sender is Some once execute has spawned the thread)
clear(self) ==
    [self EXCEPT !.sent = Append(@, CmdClear),
                 !.frame_buffer = [row \in 0..(HEIGHT - 1) |-> {}]]

\* A queue_draw that sends its command twice.
queue_draw_twice(self) == [self EXCEPT !.sent = @ \o <<CmdDraw, CmdDraw>>]

\* Window::queue_draw
queue_draw(self) == [self EXCEPT !.sent = Append(@, CmdDraw)]

\* Instruction::AddIVx: += on a u16
add_i_vx(self, reg, overflow_checks) ==
    LET res == self.address_register + self.registers[reg]
    IN  IF res >= U16 /\ overflow_checks THEN Panic(self)
        ELSE [self EXCEPT !.address_register = res % U16]

\* The instructions that block on the window's answer.
KeyOps == {"Skp", "Sknp", "LdVxK"}

\* fn execute_instruction, but for the three instructions of KeyOps.
execute_instruction(self, i, rand, overflow_checks) ==
    CASE i.op = "Sys" -> push_subroutine(self, i.addr, overflow_checks)
      [] i.op = "Cls" -> clear(self)
      [] i.op = "Ret" -> pop_subroutine(self, overflow_checks)
      [] i.op = "JpAddr" -> [self EXCEPT !.program_counter = i.addr]
      [] i.op = "Call" -> push_subroutine(self, i.addr, overflow_checks)
      [] i.op = "SeVxByte" -> skip_if(self, self.registers[i.x] = i.byte)
      [] i.op = "SneVxByte" -> skip_if(self, self.registers[i.x] # i.byte)
      [] i.op = "SeVxVy" -> skip_if(self, self.registers[i.x] = self.registers[i.y])
      [] i.op = "LdVxByte" -> [self EXCEPT !.registers[i.x] = i.byte]
      [] i.op = "AddVxByte" ->
            [self EXCEPT !.registers[i.x] = wrapping_add(@, i.byte)]
      [] i.op = "LdVxVy" -> [self EXCEPT !.registers[i.x] = self.registers[i.y]]
      [] i.op = "Or" ->
            [self EXCEPT !.registers[i.x] = BitOr(@, self.registers[i.y])]
      [] i.op = "And" ->
            [self EXCEPT !.registers[i.x] = BitAnd(@, self.registers[i.y])]
      [] i.op = "Xor" ->
            [self EXCEPT !.registers[i.x] = BitXor(@, self.registers[i.y])]
      [] i.op = "AddVxVy" -> add_vx_vy(self, i.x, i.y)
      [] i.op = "Sub" -> sub(self, i.x, i.y)
      [] i.op = "Shr" -> shr(self, i.x, i.y)
      [] i.op = "Subn" -> subn(self, i.x, i.y)
      [] i.op = "Shl" -> shl(self, i.x, i.y)
      [] i.op = "SneVxVy" -> skip_if(self, self.registers[i.x] # self.registers[i.y])
      [] i.op = "LdIAddr" -> [self EXCEPT !.address_register = i.addr]
      [] i.op = "JpV0Addr" ->
            [self EXCEPT !.program_counter = i.addr + self.registers[0]]
      [] i.op = "Rnd" -> [self EXCEPT !.registers[i.x] = BitAnd(rand, i.byte)]
      [] i.op = "Drw" ->
            draw_sprite(self, self.registers[i.x], self.registers[i.y], i.n)
      [] i.op = "LdVxDt" -> [self EXCEPT !.registers[i.x] = self.timer_register]
      [] i.op = "LdDtVx" -> [self EXCEPT !.timer_register = self.registers[i.x]]
      [] i.op = "LdStVx" -> [self EXCEPT !.sound_register = self.registers[i.x]]
      [] i.op = "AddIVx" -> add_i_vx(self, i.x, overflow_checks)
      [] i.op = "LdFVx" ->
            [self EXCEPT !.address_register = wrapping_mul(self.registers[i.x], 5)]
      [] i.op = "LdBVx" -> ld_b_vx(self, i.x)
      [] i.op = "LdIVx" -> ld_i_vx(self, i.x)
      [] i.op = "LdVxI" -> ld_vx_i(self, i.x)

\* A tick that wraps a zero timer round to 255.
decrement_timers_wrapping(self, elapsed) ==
    IF elapsed
    THEN [self EXCEPT !.timer_register = wrapping_sub(@, 1),
                      !.sound_register = wrapping_sub(@, 1)]
    ELSE self

\* execute(): the timer registers, once timer_cycle has elapsed
decrement_timers(self, elapsed) ==
    IF elapsed
    THEN [self EXCEPT !.timer_register = saturating_sub(@, 1),
                      !.sound_register = saturating_sub(@, 1)]
    ELSE self

\* execute(): what follows execute_instruction in the loop body
finish_cycle(self, i, elapsed) ==
    LET ticked == decrement_timers(self, elapsed)
    IN  IF i.op = "Drw" THEN queue_draw(ticked) ELSE ticked

----------------------------------------------------------------------------
(* Bounds of the model and the ROMs it runs *)

\* The longest command queue the model lets build up before the engine waits.
MaxQueue == 2
\* ROMs use registers 0..MaxLowReg, VE and VF.
MaxLowReg == 1
\* ROMs load the bytes 0..MaxSmallByte, 128 and 255.
MaxSmallByte == 2
\* The number of words of a ROM of calls and returns.
MaxCtlLen == 3

SampleRegs == (0..MaxLowReg) \cup {14, REG_VF}
SampleBytes == (0..MaxSmallByte) \cup {128, 255}

\* The word with the four nibbles n1 n2 n3 n4, most significant first.
Word(n1, n2, n3, n4) == n1 * 4096 + n2 * 256 + n3 * 16 + n4

\* LD Vx,a; LD Vy,b; then one instruction on Vx and Vy: every 8xyN, the
\* skips, ADD Vx,byte, the jumps, a word that does not decode and a jump
\* to the last byte of memory.
AluTails(x, y, b) ==
    {Word(8, x, y, n) : n \in 0..15}
    \cup {Word(7, x, 0, 0) + b, Word(3, x, 0, 0) + b, Word(4, x, 0, 0) + b,
          Word(5, x, y, 0), Word(9, x, y, 0), Word(5, x, y, 1),
          Word(11, 2, 0, 8), Word(1, 2, 0, 8), Word(1, 15, 15, 15)}

AluRoms ==
    UNION { { <<Word(6, x, 0, 0) + a, Word(6, y, 0, 0) + b, t>> :
                t \in AluTails(x, y, b) } :
            x \in SampleRegs, y \in SampleRegs, a \in SampleBytes, b \in SampleBytes }

\* MaxCtlLen words, each 0, RET, CALL t with t the address of one of the
\* words, or SYS to the first word.
CtlTargets == {PROGRAM_START + 2 * i : i \in 0..(MaxCtlLen - 1)}
CtlWords == {0, Word(0, 0, 14, 14), PROGRAM_START}
            \cup {Word(2, 0, 0, 0) + t : t \in CtlTargets}
CtlRoms == [1..MaxCtlLen -> CtlWords]

\* LD V0,2; LD DT,V0; LD ST,V0; then one instruction on V0 and V1, run
\* while the timers count.
TimerTails ==
    {Word(8, 0, 1, n) : n \in {4, 5, 6, 7, 14}} \cup {Word(7, 0, 0, 1), Word(3, 0, 0, 2)}
TimerRoms ==
    { <<Word(6, 0, 0, 2), Word(15, 0, 1, 5), Word(15, 0, 1, 8), t>> : t \in TimerTails }

\* LD V0,0x22; LD V1,0; LD I,0; LD [I],V1; RET: CALL 0x200 is stored over
\* the font at address 0, then RET is run with no call outstanding.
WrapRoms ==
    { <<Word(6, 0, 2, 2), Word(6, 1, 0, 0), Word(10, 0, 0, 0), Word(15, 1, 5, 5),
        Word(0, 0, 14, 14)>> }

CpuRoms == AluRoms \cup CtlRoms \cup TimerRoms \cup WrapRoms

\* The number of words of a ROM that talks to the window.
MaxIoLen == 2

\* The most timer periods the engine spends blocked in one recv(), and the
\* most the model counts.
MaxPeriods == 2
\* The whole timer periods a loop body that does not block may take.
BusyPeriods == {0, 1}

\* LD V0,1; LD V0,16; SKP V0; SKNP V0; LD V1,K; DRW V0,V0,1; CLS; JP 0x200;
\* a word that does not decode; JP 0xFFF; the zero word; SE V0,1; SNE V0,1;
\* SE V0,V1; SNE V0,V1; JP V0,0x204.
IoWords ==
    { Word(6, 0, 0, 1), Word(6, 0, 1, 0), Word(14, 0, 9, 14), Word(14, 0, 10, 1),
      Word(15, 1, 0, 10), Word(13, 0, 0, 1), Word(0, 0, 14, 0), Word(1, 2, 0, 0),
      Word(14, 0, 0, 0), Word(1, 15, 15, 15), 0,
      Word(3, 0, 0, 1), Word(4, 0, 0, 1), Word(5, 0, 1, 0), Word(9, 0, 1, 0),
      Word(11, 2, 0, 4) }
IoRoms == [1..MaxIoLen -> IoWords]

\* LD V0,2; LD DT,V0; LD ST,V0; then LD V1,K, SKP V1, DRW V1,V1,1 or
\* LD V1,0; then LD V1,DT; LD V0,0; LD ST,V0.
ClockRoms ==
    { <<Word(6, 0, 0, 2), Word(15, 0, 1, 5), Word(15, 0, 1, 8), w,
        Word(15, 1, 0, 7), Word(6, 0, 0, 0), Word(15, 0, 1, 8)>> :
      w \in {Word(15, 1, 0, 10), Word(14, 1, 9, 14), Word(13, 1, 1, 1), Word(6, 1, 0, 0)} }

\* LD V0,0x05; ADD V0,0x03; the zero word.
QuietRom == <<Word(6, 0, 0, 5), Word(7, 0, 0, 3), 0>>
QuietMemory == memory = new_memory(RomBytes(QuietRom))

\* LD V0,0x10; SKP V0 or SKNP V0; then two of DRW V0,V0,1, CLS, LD V1,K and
\* SKP V1: a query for a key that is none, and what the engine does next.
DeadKeyRoms ==
    { <<Word(6, 0, 1, 0), q, w1, w2>> :
      q \in {Word(14, 0, 9, 14), Word(14, 0, 10, 1)},
      w1 \in {Word(13, 0, 0, 1), Word(0, 0, 14, 0), Word(15, 1, 0, 10), Word(14, 1, 9, 14)},
      w2 \in {Word(13, 0, 0, 1), Word(0, 0, 14, 0), Word(15, 1, 0, 10), Word(14, 1, 9, 14)} }

\* ROMs draw sprites of 0..MaxRows rows, and of 15.
MaxRows == 2

\* The ways a ROM ends: the zero word, JP 0xFFF, JP V0,0xFFF, a word that
\* does not decode.
MemTails == {0, Word(1, 15, 15, 15), Word(11, 15, 15, 15), Word(15, 0, 15, 15)}

\* LD VF,f; LD V0,vx; LD V1,vy; LD I,addr; DRW V0,V1,n1; DRW V0,V1,n2; the
\* zero word; two bytes of sprite data.  I is the font, the data or the
\* last byte of memory.
SpriteRows == (0..MaxRows) \cup {15}
SpriteData == PROGRAM_START + 14
DrawRoms ==
    { <<Word(6, 15, 0, 0) + f, Word(6, 0, 0, 0) + vx, Word(6, 1, 0, 0) + vy,
        Word(10, 0, 0, 0) + addr, Word(13, 0, 1, n1), Word(13, 0, 1, n2), 0, data>> :
      f \in {0, 1}, vx \in {0, 60, 255}, vy \in {0, 31, 255},
      addr \in {0, SpriteData, RAM_SIZE - 1},
      n1 \in SpriteRows, n2 \in SpriteRows,
      data \in {Word(15, 15, 0, 0), Word(15, 15, 8, 1)} }

\* LD V0,v; LD I,addr; LD B,V0; a tail.
BcdRoms ==
    { <<Word(6, 0, 0, 0) + v, Word(10, 0, 0, 0) + addr, Word(15, 0, 3, 3), t>> :
      v \in {0, 5, 10, 99, 100, 123, 255},
      addr \in {0, 768, RAM_SIZE - 3, RAM_SIZE - 2, RAM_SIZE - 1},
      t \in MemTails }

\* LD V0,a; LD V1,2; LD I,addr; LD [I],Vx; an instruction that writes V0 or
\* V1; LD Vx,[I]; a tail.
StoreRoms ==
    { <<Word(6, 0, 0, 0) + a, Word(6, 1, 0, 2), Word(10, 0, 0, 0) + addr,
        Word(15, x, 5, 5), mid, Word(15, x, 6, 5), t>> :
      a \in {1, 255}, addr \in {4, 768, RAM_SIZE - 1},
      x \in (0..MaxLowReg) \cup {REG_VF},
      mid \in {Word(6, 0, 0, 7), Word(6, 1, 0, 7), Word(8, 0, 1, 4)},
      t \in MemTails }

\* LD I,addr; LD Vx,[I]; the zero word: a load from the end of memory.
LoadRoms ==
    { <<Word(10, 0, 0, 0) + addr, Word(15, x, 6, 5), 0>> :
      addr \in {RAM_SIZE - 2, RAM_SIZE - 1}, x \in (0..MaxLowReg) \cup {REG_VF} }

MemRoms == DrawRoms \cup BcdRoms \cup StoreRoms \cup LoadRoms

----------------------------------------------------------------------------
(* The engine: Interpreter::execute *)

\* status: where the engine is.
\*   "fetch"              at the top of execute()'s loop
\*   "is_key_pressed"     in Window::is_key_pressed, blocked in recv()
\*   "wait_for_key_press" in Window::wait_for_key_press, blocked in recv()
\*   "Ok", "Err"          execute() has returned Ok(()) or Err(..)
\*   "panic"              the engine's thread has panicked
EngineStatus == {"fetch", "is_key_pressed", "wait_for_key_press", "Ok", "Err", "panic"}
Ended == {"Ok", "Err", "panic"}

NoWord == -1

\* No LD DT,Vx has run yet.
NoDelaySet == [written |-> FALSE, value |-> 0, periods |-> 0]

\* What `before` keeps of the engine when a cycle begins.
\* `last` is the loop body before that one, what it executed and what it
\* started from, and `last.last` the one before.
Snapshot ==
    [ memory |-> memory,
      frame_buffer |-> frame_buffer,
      program_counter |-> program_counter,
      registers |-> registers,
      address_register |-> address_register,
      sound_register |-> sound_register,
      timer_register |-> timer_register,
      stack_pointer |-> stack_pointer,
      stack |-> stack,
      delay_set |-> delay_set,
      last |-> [ instruction |-> instruction,
                 memory |-> before.memory,
                 frame_buffer |-> before.frame_buffer,
                 registers |-> before.registers,
                 address_register |-> before.address_register,
                 last |-> [ instruction |-> before.last.instruction,
                            registers |-> before.last.registers,
                            address_register |-> before.last.address_register ] ] ]

\* The snapshot before the first loop body: nothing has run.
FirstSnapshot ==
    [ memory |-> memory,
      frame_buffer |-> frame_buffer,
      program_counter |-> program_counter,
      registers |-> registers,
      address_register |-> address_register,
      sound_register |-> sound_register,
      timer_register |-> timer_register,
      stack_pointer |-> stack_pointer,
      stack |-> stack,
      delay_set |-> delay_set,
      last |-> [ instruction |-> NoResult,
                 memory |-> memory,
                 frame_buffer |-> frame_buffer,
                 registers |-> registers,
                 address_register |-> address_register,
                 last |-> [ instruction |-> NoResult,
                            registers |-> registers,
                            address_register |-> address_register ] ] ]

\* Interpreter::new(rom_file), then execute() up to its loop: the window
\* thread is spawned with both channels empty.
\* Nobody holds the lock, nothing is drawn: the canvas is blank after
\* canvas.present() in Window::spawn.
Blank == [row \in 0..(HEIGHT - 1) |-> {}]
EngineIdle(ops) == [at |-> "idle", draw_bytes |-> << >>, x |-> 0, y |-> 0, i |-> 0, ops |-> ops]
InitLock ==
    /\ rw_lock = "free"
    /\ engine_at = EngineIdle(0)
    /\ window_at = [at |-> "idle", y |-> HEIGHT]
    /\ canvas = Blank
    /\ whole = {Blank}

InitRom(roms) ==
    /\ \E rom \in roms : memory = new_memory(RomBytes(rom))
    /\ program_counter = PROGRAM_START
    /\ registers = [r \in 0..15 |-> 0]
    /\ address_register = 0
    /\ sound_register = 0
    /\ timer_register = 0
    /\ stack_pointer = 0
    /\ stack = [n \in 0..(STACK_SIZE - 1) |-> 0]
    /\ frame_buffer = [row \in 0..(HEIGHT - 1) |-> {}]
    /\ rx = << >>
    /\ respond_rx = << >>
    /\ thread = "running"
    /\ wait_for_key = FALSE
    /\ instruction_bytes = NoWord
    /\ instruction = NoResult
    /\ status = "fetch"
    /\ timer_clock = 0
    /\ delay_set = NoDelaySet
    /\ InitLock
    /\ before = FirstSnapshot

\* Sender::send: the command is queued unless the receiver is gone.
send(queue, cmds) == IF thread = "running" THEN queue \o cmds ELSE queue

\* The engine's variables take the values of the record.
Store(self) ==
    /\ memory' = self.memory
    /\ program_counter' = self.program_counter
    /\ registers' = self.registers
    /\ address_register' = self.address_register
    /\ sound_register' = self.sound_register
    /\ timer_register' = self.timer_register
    /\ stack_pointer' = self.stack_pointer
    /\ stack' = self.stack
    /\ frame_buffer' = self.frame_buffer

EngineUnchanged ==
    UNCHANGED <<memory, program_counter, registers, address_register,
                sound_register, timer_register, stack_pointer, stack, frame_buffer>>

\* The end of a loop body: a panic ends the engine, otherwise the record is
\* stored, its commands are sent and the loop goes on.
Commit(self) ==
    IF self.panicked
    THEN /\ status' = "panic"
         /\ EngineUnchanged
         /\ UNCHANGED rx
    ELSE /\ status' = "fetch"
         /\ Store(self)
         /\ rx' = send(rx, self.sent)

Fetched == read_u16(memory, program_counter)

Min(a, b) == IF a <= b THEN a ELSE b

\* timer_clock.elapsed() >= timer_cycle, when `passed` whole periods have
\* gone by since the loop body began.
has_elapsed(passed) == timer_clock + passed >= 1

\* The clock at the end of a loop body that took `passed` periods up to the
\* timer check: timer_clock = Instant::now() if the check fired, and the
\* sleep of one period in queue_draw after a Drw.  delay_set follows: a
\* LD DT,Vx starts the count, every period that goes by adds to it.
Timing(self, i, passed) ==
    IF self.panicked
    THEN UNCHANGED <<timer_clock, delay_set>>
    ELSE LET slept == IF i.op = "Drw" THEN 1 ELSE 0
             kept == IF has_elapsed(passed) THEN 0 ELSE timer_clock + passed
         IN  /\ timer_clock' = Min(kept + slept, MaxPeriods)
             /\ delay_set' =
                   IF i.op = "LdDtVx"
                   THEN [written |-> TRUE, value |-> self.registers[i.x], periods |-> 0]
                   ELSE IF delay_set.written
                   THEN [delay_set EXCEPT
                            !.periods = Min(@ + passed + slept, MaxPeriods)]
                   ELSE delay_set

\* read_u16 at a program counter whose second byte is outside memory
FetchPanic ==
    /\ status = "fetch"
    /\ ~read_u16_in_range(program_counter)
    /\ status' = "panic"
    /\ instruction_bytes' = NoWord
    /\ instruction' = NoResult
    /\ before' = Snapshot
    /\ EngineUnchanged
    /\ UNCHANGED <<rx, respond_rx, thread, wait_for_key, timer_clock, delay_set>>
    /\ UNCHANGED lock_vars

\* A loop that steps the counter before it looks at the word.
Terminate_after_step ==
    /\ status = "fetch"
    /\ read_u16_in_range(program_counter)
    /\ Fetched = 0
    /\ status' = "Ok"
    /\ instruction_bytes' = Fetched
    /\ instruction' = NoResult
    /\ before' = Snapshot
    /\ program_counter' = program_counter + 2
    /\ UNCHANGED <<memory, registers, address_register, sound_register,
                   timer_register, stack_pointer, stack, frame_buffer>>
    /\ UNCHANGED <<rx, respond_rx, thread, wait_for_key, timer_clock, delay_set>>
    /\ UNCHANGED lock_vars

\* if instruction_bytes == 0 { return Ok(()) }
Terminate ==
    /\ status = "fetch"
    /\ read_u16_in_range(program_counter)
    /\ Fetched = 0
    /\ status' = "Ok"
    /\ instruction_bytes' = Fetched
    /\ instruction' = NoResult
    /\ before' = Snapshot
    /\ EngineUnchanged
    /\ UNCHANGED <<rx, respond_rx, thread, wait_for_key, timer_clock, delay_set>>
    /\ UNCHANGED lock_vars

\* A loop that steps the counter before it decodes.
DecodeFail_after_step ==
    /\ status = "fetch"
    /\ read_u16_in_range(program_counter)
    /\ Fetched # 0
    /\ ~try_from(Fetched).ok
    /\ status' = "Err"
    /\ instruction_bytes' = Fetched
    /\ instruction' = try_from(Fetched)
    /\ before' = Snapshot
    /\ program_counter' = program_counter + 2
    /\ UNCHANGED <<memory, registers, address_register, sound_register,
                   timer_register, stack_pointer, stack, frame_buffer>>
    /\ UNCHANGED <<rx, respond_rx, thread, wait_for_key, timer_clock, delay_set>>
    /\ UNCHANGED lock_vars

\* Instruction::try_from(instruction_bytes)? on a word that does not decode
DecodeFail ==
    /\ status = "fetch"
    /\ read_u16_in_range(program_counter)
    /\ Fetched # 0
    /\ ~try_from(Fetched).ok
    /\ status' = "Err"
    /\ instruction_bytes' = Fetched
    /\ instruction' = try_from(Fetched)
    /\ before' = Snapshot
    /\ EngineUnchanged
    /\ UNCHANGED <<rx, respond_rx, thread, wait_for_key, timer_clock, delay_set>>
    /\ UNCHANGED lock_vars

\* rand::random::<u8>()
RandomBytes(i) == IF i.op = "Rnd" THEN 0..255 ELSE {0}

\* One loop body of execute() for an instruction that does not wait for the
\* window: the counter is stepped, the instruction runs, the timers are
\* decremented if timer_cycle has elapsed, a Drw queues its Draw.
Execute ==
    /\ status = "fetch"
    /\ read_u16_in_range(program_counter)
    /\ LET word == Fetched
           decoded == try_from(word)
       IN  /\ word # 0
           /\ decoded.ok
           /\ decoded.instr.op \notin KeyOps
           /\ instruction_bytes' = word
           /\ instruction' = decoded
           /\ before' = Snapshot
           /\ \E rand \in RandomBytes(decoded.instr),
                 overflow_checks \in BOOLEAN, passed \in BusyPeriods :
                 LET i == decoded.instr
                     stepped == [Self EXCEPT !.program_counter = @ + 2]
                     done == execute_instruction(stepped, i, rand, overflow_checks)
                     self == IF done.panicked THEN done
                             ELSE finish_cycle(done, i, has_elapsed(passed))
                 IN  /\ Len(rx) + Len(self.sent) <= MaxQueue
                     /\ Commit(self)
                     /\ Timing(self, i, passed)
    /\ UNCHANGED <<respond_rx, thread, wait_for_key>>
    /\ UNCHANGED lock_vars

\* The engine alone.
NextCpu == FetchPanic \/ Terminate \/ DecodeFail \/ Execute

InitCpu == InitRom(CpuRoms)

SpecCpu == InitCpu /\ [][NextCpu]_vars

\* The engine alone, on ROMs that draw and that store to memory.
InitMem == InitRom(MemRoms)

SpecMem == InitMem /\ [][NextCpu]_vars

----------------------------------------------------------------------------
(* The engine's calls into the window that wait for an answer *)

\* Skp/Sknp up to recv() in Window::is_key_pressed: the counter is stepped,
\* send(IsPressed(Vx)).unwrap() panics when the window thread is gone.
SendIsPressed ==
    /\ status = "fetch"
    /\ read_u16_in_range(program_counter)
    /\ LET word == Fetched
           decoded == try_from(word)
       IN  /\ word # 0
           /\ decoded.ok
           /\ decoded.instr.op \in {"Skp", "Sknp"}
           /\ instruction_bytes' = word
           /\ instruction' = decoded
           /\ before' = Snapshot
           /\ IF thread = "running"
              THEN /\ Len(rx) < MaxQueue
                   /\ rx' = Append(rx, CmdIsPressed(registers[decoded.instr.x]))
                   /\ program_counter' = program_counter + 2
                   /\ status' = "is_key_pressed"
              ELSE /\ status' = "panic"
                   /\ UNCHANGED <<rx, program_counter>>
    /\ UNCHANGED <<memory, registers, address_register, sound_register,
                   timer_register, stack_pointer, stack, frame_buffer,
                   respond_rx, thread, wait_for_key, timer_clock, delay_set>>
    /\ UNCHANGED lock_vars

\* recv() on the response channel: a value, or Err once the channel is empty
\* and the window thread (its only sender) is gone.
CanRecv == respond_rx # << >> \/ thread # "running"
Received == IF respond_rx # << >> THEN [ok |-> TRUE, val |-> Head(respond_rx)]
            ELSE [ok |-> FALSE]

\* Skp/Sknp from recv() on: Ok(val) => val != 0, Err => false; the skip;
\* then the rest of the loop body.
RecvIsPressed ==
    /\ status = "is_key_pressed"
    /\ CanRecv
    /\ respond_rx' = IF respond_rx # << >> THEN Tail(respond_rx) ELSE respond_rx
    /\ \E passed \in 0..MaxPeriods :
          LET pressed == Received.ok /\ Received.val # 0
              i == instruction.instr
              done == skip_if(Self, IF i.op = "Skp" THEN pressed ELSE ~pressed)
          IN  /\ Commit(finish_cycle(done, i, has_elapsed(passed)))
              /\ Timing(done, i, passed)
    /\ UNCHANGED <<thread, wait_for_key, instruction_bytes, instruction, before>>
    /\ UNCHANGED lock_vars

\* LdVxK up to recv() in Window::wait_for_key_press
SendWaitKeyPress ==
    /\ status = "fetch"
    /\ read_u16_in_range(program_counter)
    /\ LET word == Fetched
           decoded == try_from(word)
       IN  /\ word # 0
           /\ decoded.ok
           /\ decoded.instr.op = "LdVxK"
           /\ instruction_bytes' = word
           /\ instruction' = decoded
           /\ before' = Snapshot
           /\ IF thread = "running"
              THEN /\ Len(rx) < MaxQueue
                   /\ rx' = Append(rx, CmdWaitKeyPress)
                   /\ program_counter' = program_counter + 2
                   /\ status' = "wait_for_key_press"
              ELSE /\ status' = "panic"
                   /\ UNCHANGED <<rx, program_counter>>
    /\ UNCHANGED <<memory, registers, address_register, sound_register,
                   timer_register, stack_pointer, stack, frame_buffer,
                   respond_rx, thread, wait_for_key, timer_clock, delay_set>>
    /\ UNCHANGED lock_vars

\* A recv() that only ever returns a response, and blocks without one.
RecvWaitKeyPress_blocks ==
    /\ status = "wait_for_key_press"
    /\ respond_rx # << >>
    /\ respond_rx' = Tail(respond_rx)
    /\ \E passed \in 0..MaxPeriods :
          LET i == instruction.instr
              done == [Self EXCEPT !.registers[i.x] = Head(respond_rx)]
          IN  /\ Commit(finish_cycle(done, i, has_elapsed(passed)))
              /\ Timing(done, i, passed)
    /\ UNCHANGED <<thread, wait_for_key, instruction_bytes, instruction, before>>
    /\ UNCHANGED lock_vars

\* LdVxK from recv() on: Ok(val) => val, Err => 0, stored in Vx.
RecvWaitKeyPress ==
    /\ status = "wait_for_key_press"
    /\ CanRecv
    /\ respond_rx' = IF respond_rx # << >> THEN Tail(respond_rx) ELSE respond_rx
    /\ \E passed \in 0..MaxPeriods :
          LET val == IF Received.ok THEN Received.val ELSE 0
              i == instruction.instr
              done == [Self EXCEPT !.registers[i.x] = val]
          IN  /\ Commit(finish_cycle(done, i, has_elapsed(passed)))
              /\ Timing(done, i, passed)
    /\ UNCHANGED <<thread, wait_for_key, instruction_bytes, instruction, before>>
    /\ UNCHANGED lock_vars

----------------------------------------------------------------------------
(* window.rs: the thread of Window::spawn.  It runs while the engine does:  *)
(* the process ends when execute() returns or panics (main.rs).             *)

WindowRuns == thread = "running" /\ status \notin Ended

WindowUnchanged ==
    UNCHANGED <<instruction_bytes, instruction, status, timer_clock, delay_set, before>>

\* Ok(WindowCommand::Draw) => Self::draw(..): the frame buffer is read
WindowDraw ==
    /\ WindowRuns
    /\ rx # << >> /\ Head(rx) = CmdDraw
    /\ rx' = Tail(rx)
    /\ EngineUnchanged /\ WindowUnchanged
    /\ UNCHANGED <<respond_rx, thread, wait_for_key>>
    /\ UNCHANGED lock_vars

\* Ok(WindowCommand::Clear) => the canvas is cleared
WindowClear ==
    /\ WindowRuns
    /\ rx # << >> /\ Head(rx) = CmdClear
    /\ rx' = Tail(rx)
    /\ EngineUnchanged /\ WindowUnchanged
    /\ UNCHANGED <<respond_rx, thread, wait_for_key>>
    /\ UNCHANGED lock_vars

\* A map_key that maps every byte.
map_key_any(key) == TRUE

\* Window::map_key is defined on 0..=0xF and unreachable!() beyond.
map_key_defined(key) == key <= 15

\* A window that answers a key query twice.
WindowIsPressed_replies_twice ==
    /\ WindowRuns
    /\ rx # << >> /\ Head(rx).cmd = "IsPressed"
    /\ \E pressed \in {0, 1} : respond_rx' = respond_rx \o <<pressed, pressed>>
    /\ rx' = Tail(rx)
    /\ EngineUnchanged /\ WindowUnchanged
    /\ UNCHANGED <<thread, wait_for_key>>
    /\ UNCHANGED lock_vars

\* Ok(WindowCommand::IsPressed(key)) => the key's state is sent back; the
\* thread panics in map_key for a key above 0xF and drops both channel ends.
WindowIsPressed ==
    /\ WindowRuns
    /\ rx # << >> /\ Head(rx).cmd = "IsPressed"
    /\ IF map_key_defined(Head(rx).key)
       THEN /\ \E pressed \in {0, 1} : respond_rx' = Append(respond_rx, pressed)
            /\ rx' = Tail(rx)
            /\ UNCHANGED thread
       ELSE /\ thread' = "panicked"
            /\ rx' = << >>
            /\ UNCHANGED respond_rx
    /\ EngineUnchanged /\ WindowUnchanged
    /\ UNCHANGED wait_for_key
    /\ UNCHANGED lock_vars

\* Ok(WindowCommand::WaitKeyPress) => wait_for_key = true
WindowWaitKeyPress ==
    /\ WindowRuns
    /\ rx # << >> /\ Head(rx) = CmdWaitKeyPress
    /\ rx' = Tail(rx)
    /\ wait_for_key' = TRUE
    /\ EngineUnchanged /\ WindowUnchanged
    /\ UNCHANGED <<respond_rx, thread>>
    /\ UNCHANGED lock_vars

\* Event::Quit => return: the thread ends, the commands not yet received
\* are dropped with the receiver.
WindowQuit ==
    /\ WindowRuns
    /\ thread' = "exited"
    /\ rx' = << >>
    /\ EngineUnchanged /\ WindowUnchanged
    /\ UNCHANGED <<respond_rx, wait_for_key>>
    /\ UNCHANGED lock_vars

\* Window::map_scancode maps sixteen scancodes to the keys 0..=0xF; the
\* model releases the first two and the last.
SampleKeys == {0, 1, 15}

\* A window that reports every release, wanted or not.
WindowKeyUp_any_release ==
    /\ WindowRuns
    /\ Len(respond_rx) < MaxQueue
    /\ \E mapped_key \in SampleKeys : respond_rx' = Append(respond_rx, mapped_key)
    /\ wait_for_key' = FALSE
    /\ EngineUnchanged /\ WindowUnchanged
    /\ UNCHANGED <<rx, thread>>
    /\ UNCHANGED lock_vars

\* Event::KeyUp of a key map_scancode maps, while wait_for_key
WindowKeyUp ==
    /\ WindowRuns
    /\ wait_for_key
    /\ \E mapped_key \in SampleKeys : respond_rx' = Append(respond_rx, mapped_key)
    /\ wait_for_key' = FALSE
    /\ EngineUnchanged /\ WindowUnchanged
    /\ UNCHANGED <<rx, thread>>
    /\ UNCHANGED lock_vars

Init == InitRom(IoRoms \cup ClockRoms \cup {QuietRom} \cup DeadKeyRoms)

Next ==
    \/ FetchPanic
    \/ Terminate
    \/ DecodeFail
    \/ Execute
    \/ SendIsPressed
    \/ RecvIsPressed
    \/ SendWaitKeyPress
    \/ RecvWaitKeyPress
    \/ WindowDraw
    \/ WindowClear
    \/ WindowIsPressed
    \/ WindowWaitKeyPress
    \/ WindowQuit
    \/ WindowKeyUp

Spec == Init /\ [][Next]_vars

\* recv() returns once a response is there or the sender is gone: the
\* engine's thread is scheduled.
FairSpec == Spec /\ WF_vars(RecvWaitKeyPress) /\ WF_vars(RecvIsPressed)

\* The engine's thread runs: it returns at a zero word, and on QuietRom the
\* loop of execute() goes on while it can.
RunSpec == FairSpec /\ WF_vars(Terminate) /\ WF_vars(QuietMemory /\ Execute)

----------------------------------------------------------------------------
(* The decoder alone: a word is drawn, try_from decodes it. *)

InitDecode ==
    /\ instruction_bytes \in 0..(U16 - 1)
    /\ instruction = NoResult
    /\ memory = << >>
    /\ program_counter = PROGRAM_START
    /\ registers = << >>
    /\ address_register = 0
    /\ sound_register = 0
    /\ timer_register = 0
    /\ stack_pointer = 0
    /\ stack = << >>
    /\ frame_buffer = << >>
    /\ rx = << >>
    /\ respond_rx = << >>
    /\ thread = "none"
    /\ wait_for_key = FALSE
    /\ status = "none"
    /\ timer_clock = 0
    /\ delay_set = NoDelaySet
    /\ InitLock
    /\ before = << >>

Decode ==
    /\ status = "none"
    /\ instruction = NoResult
    /\ instruction' = try_from(instruction_bytes)
    /\ EngineUnchanged
    /\ UNCHANGED <<rx, respond_rx, thread, wait_for_key, instruction_bytes, status,
                   timer_clock, delay_set, before>>
    /\ UNCHANGED lock_vars

NextDecode == Decode

SpecDecode == InitDecode /\ [][NextDecode]_vars

----------------------------------------------------------------------------
(* Claims about the decoder (checked under SpecDecode) *)

\* The four nibbles of a word and its low fields, by arithmetic.
N1(w) == w \div 4096
N2(w) == (w \div 256) % 16
N3(w) == (w \div 16) % 16
N4(w) == w % 16
LowByte(w) == w % 256
Low12(w) == w % 4096

AddrNames == (10 :> "LdIAddr") @@ (11 :> "JpV0Addr") @@ (1 :> "JpAddr") @@ (2 :> "Call")
ByteNames == (3 :> "SeVxByte") @@ (4 :> "SneVxByte") @@ (6 :> "LdVxByte")
             @@ (7 :> "AddVxByte") @@ (12 :> "Rnd")
AluNames == (0 :> "LdVxVy") @@ (1 :> "Or") @@ (2 :> "And") @@ (3 :> "Xor")
            @@ (4 :> "AddVxVy") @@ (5 :> "Sub") @@ (6 :> "Shr") @@ (7 :> "Subn")
            @@ (14 :> "Shl")
KeyNames == (158 :> "Skp") @@ (161 :> "Sknp")
MiscNames == (7 :> "LdVxDt") @@ (10 :> "LdVxK") @@ (21 :> "LdDtVx") @@ (24 :> "LdStVx")
             @@ (30 :> "AddIVx") @@ (41 :> "LdFVx") @@ (51 :> "LdBVx")
             @@ (85 :> "LdIVx") @@ (101 :> "LdVxI")

\* The words of the opcode table.
InTable(w) ==
    \/ N1(w) \in {0, 1, 2, 3, 4, 6, 7, 10, 11, 12, 13}
    \/ N1(w) \in {5, 9} /\ N4(w) = 0
    \/ N1(w) = 8 /\ N4(w) \in DOMAIN AluNames
    \/ N1(w) = 14 /\ LowByte(w) \in DOMAIN KeyNames
    \/ N1(w) = 15 /\ LowByte(w) \in DOMAIN MiscNames

\* The instruction the opcode table gives for a word of the table.
TableEntry(w) ==
    CASE w = 224 -> Plain("Cls")
      [] w = 238 -> Plain("Ret")
      [] N1(w) = 0 /\ w \notin {224, 238} -> Addr("Sys", Low12(w))
      [] N1(w) \in DOMAIN AddrNames -> Addr(AddrNames[N1(w)], Low12(w))
      [] N1(w) \in DOMAIN ByteNames -> VxByte(ByteNames[N1(w)], N2(w), LowByte(w))
      [] N1(w) = 5 -> VxVy("SeVxVy", N2(w), N3(w))
      [] N1(w) = 9 -> VxVy("SneVxVy", N2(w), N3(w))
      [] N1(w) = 8 -> VxVy(AluNames[N4(w)], N2(w), N3(w))
      [] N1(w) = 13 -> DrwInstr(N2(w), N3(w), N4(w))
      [] N1(w) = 14 -> Vx(KeyNames[LowByte(w)], N2(w))
      [] N1(w) = 15 -> Vx(MiscNames[LowByte(w)], N2(w))

Decoded == status = "none" /\ instruction # NoResult

\* C1: every word of the opcode table decodes to the variant and operands
\* the table gives: 00E0 is Cls and 00EE is Ret before any other 0nnn, which
\* is Sys(nnn); addresses are the low 12 bits, bytes the low 8 bits,
\* registers the second and third nibbles; 8xyN is selected by N, Exkk and
\* Fxkk by kk.
C1_DecodeTable ==
    (Decoded /\ InTable(instruction_bytes))
        => instruction = Ok(TableEntry(instruction_bytes))

\* 00EE has been decoded to Ret, not to Sys(0x0EE).
C1_Witness ==
    Decoded /\ instruction_bytes = 238 /\ instruction = Ok(Plain("Ret"))

\* The words outside the table, as the claim lists them.
OutsideTable(w) ==
    \/ N1(w) \in {5, 9} /\ N4(w) # 0
    \/ N1(w) = 8 /\ N4(w) \in {8, 9, 10, 11, 12, 13, 15}
    \/ N1(w) = 14 /\ LowByte(w) \notin {158, 161}
    \/ N1(w) = 15 /\ LowByte(w) \notin {7, 10, 21, 24, 30, 41, 51, 85, 101}

\* C2: decoding is total; a word yields the error that names it exactly when
\* it is outside the table, and every other word yields an instruction.
C2_ErrIffOutsideTable ==
    Decoded =>
        /\ instruction = Err(instruction_bytes) <=> OutsideTable(instruction_bytes)
        /\ ~OutsideTable(instruction_bytes) =>
              instruction.ok /\ "op" \in DOMAIN instruction.instr

\* 5xy1 has been decoded to the error naming it.
C2_Witness ==
    Decoded /\ instruction_bytes = Word(5, 0, 1, 1)
            /\ instruction = Err(Word(5, 0, 1, 1))

----------------------------------------------------------------------------
(* Claims about the engine *)

\* The last loop body ran to its end: `instruction` is what it executed and
\* `before` the engine as it was when the body began.
CycleDone == status = "fetch" /\ instruction # NoResult
LastOp == instruction.instr.op

EngineSame ==
    /\ memory' = memory
    /\ program_counter' = program_counter
    /\ registers' = registers
    /\ address_register' = address_register
    /\ sound_register' = sound_register
    /\ timer_register' = timer_register
    /\ stack_pointer' = stack_pointer
    /\ stack' = stack
    /\ frame_buffer' = frame_buffer

\* No command is added to the queue (the window may take one, or drop all).
NothingSent == rx' = rx \/ (rx # << >> /\ rx' = Tail(rx)) \/ rx' = << >>

AtZeroWord ==
    status = "fetch" /\ read_u16_in_range(program_counter) /\ Fetched = 0

\* C3: with the word 0x0000 at the program counter the engine can only stop
\* with Ok: nothing is decoded, no part of the engine's state changes and no
\* command is sent; and the engine reaches Ok from no other state.
C3_ZeroWordStops ==
    [][ /\ AtZeroWord =>
              /\ status' \in {"fetch", "Ok"}
              /\ EngineSame
              /\ NothingSent
              /\ status' = "Ok" => (instruction' = NoResult /\ rx' = rx)
        /\ (status' = "Ok" /\ status # "Ok") => AtZeroWord ]_vars

\* The engine has stopped with Ok at the zero word that follows two
\* executed instructions.
C3_Witness ==
    /\ status = "Ok"
    /\ instruction_bytes = 0
    /\ program_counter = PROGRAM_START + 4
    /\ before.program_counter = program_counter

AtBadWord ==
    /\ status = "fetch"
    /\ read_u16_in_range(program_counter)
    /\ Fetched # 0
    /\ OutsideTable(Fetched)

\* C4: with a non-zero word that does not decode at the program counter the
\* engine can only end with the error for that word, and the failing cycle
\* changes nothing: the counter is not advanced, no register, memory byte,
\* stack slot, timer or frame buffer row changes.
C4_DecodeErrorLeavesState ==
    [][ AtBadWord =>
            /\ status' \in {"fetch", "Err"}
            /\ EngineSame
            /\ NothingSent
            /\ status' = "Err" => (instruction' = Err(Fetched) /\ rx' = rx) ]_vars

\* The engine has ended with a decode error after an executed instruction.
C4_Witness ==
    /\ status = "Err"
    /\ instruction = Err(instruction_bytes)
    /\ program_counter = PROGRAM_START + 2
    /\ before.program_counter = program_counter
    /\ Fetched = instruction_bytes

\* The counter after a finished cycle, given the counter and the registers
\* before it.
C5_CounterAfter ==
    LET i == instruction.instr
        old == before.program_counter
        r == before.registers
        skip(c) == program_counter = old + (IF c THEN 4 ELSE 2)
    IN  CASE i.op = "JpAddr" -> program_counter = i.addr
          [] i.op = "JpV0Addr" -> program_counter = i.addr + r[0]
          [] i.op \in {"Call", "Sys", "Ret"} -> TRUE
          [] i.op = "SeVxByte" -> skip(r[i.x] = i.byte)
          [] i.op = "SneVxByte" -> skip(r[i.x] # i.byte)
          [] i.op = "SeVxVy" -> skip(r[i.x] = r[i.y])
          [] i.op = "SneVxVy" -> skip(r[i.x] # r[i.y])
          [] i.op \in {"Skp", "Sknp"} -> program_counter \in {old + 2, old + 4}
          [] OTHER -> program_counter = old + 2

\* The counter when the window's answer to a key query arrives.
C5_KeySkip ==
    (status = "is_key_pressed" /\ status' = "fetch") =>
        LET pressed == respond_rx # << >> /\ Head(respond_rx) # 0
            condition == IF LastOp = "Skp" THEN pressed ELSE ~pressed
        IN  program_counter' = before.program_counter + (IF condition THEN 4 ELSE 2)

\* C5: the counter is advanced by 2 before the instruction executes (it is
\* old + 2 while the engine waits inside Skp, Sknp or LdVxK); after a cycle
\* it is old + 2, or old + 4 for a skip whose condition holds, addr after
\* JP addr and addr + V0 after JP V0,addr.
C5_ProgramCounter ==
    /\ [](status \in {"is_key_pressed", "wait_for_key_press"}
            => program_counter = before.program_counter + 2)
    /\ [](CycleDone => C5_CounterAfter)
    /\ [][C5_KeySkip]_vars

\* SKP has skipped: the window answered that the key is down.
C5_Witness ==
    /\ CycleDone
    /\ LastOp = "Skp"
    /\ program_counter = before.program_counter + 4

\* The timers after a cycle: untouched, or each one step nearer to zero.
TimersOnlyTick ==
    \/ /\ timer_register = before.timer_register
       /\ sound_register = before.sound_register
    \/ /\ timer_register = saturating_sub(before.timer_register, 1)
       /\ sound_register = saturating_sub(before.sound_register, 1)

C7_DepthSixteen ==
    /\ (status = "panic" /\ instruction.ok /\ LastOp \in {"Call", "Sys"})
          => before.stack_pointer >= STACK_SIZE
    /\ (CycleDone /\ LastOp = "Ret") => before.stack_pointer >= 1

\* C8: ADD Vx,Vy with x in 0..14 leaves Vx = (old Vx + old Vy) mod 256 and
\* VF = 1 if the sum exceeds 255, else 0; ADD Vx,byte leaves
\* Vx = (old Vx + kk) mod 256 and writes no flag; neither changes another
\* register, I or memory, and the timers only take their tick.
C8_Add ==
    CycleDone =>
        LET i == instruction.instr
            r == before.registers
        IN  /\ (i.op = "AddVxVy" /\ i.x \in 0..14) =>
                  /\ registers =
                       [[r EXCEPT ![i.x] = (r[i.x] + r[i.y]) % 256]
                           EXCEPT ![REG_VF] = IF r[i.x] + r[i.y] > 255 THEN 1 ELSE 0]
                  /\ address_register = before.address_register
                  /\ memory = before.memory
                  /\ TimersOnlyTick
            /\ i.op = "AddVxByte" =>
                  /\ registers = [r EXCEPT ![i.x] = (r[i.x] + i.byte) % 256]
                  /\ address_register = before.address_register
                  /\ memory = before.memory
                  /\ TimersOnlyTick

\* 0xFF + 0x01 has wrapped to 0x00 with the carry in VF.
C8_Witness ==
    /\ CycleDone
    /\ LastOp = "AddVxVy"
    /\ instruction.instr.x \in 0..14
    /\ before.registers[instruction.instr.x] = 255
    /\ before.registers[instruction.instr.y] = 1
    /\ registers[instruction.instr.x] = 0
    /\ registers[REG_VF] = 1

----------------------------------------------------------------------------
(* Claims about memory and the frame buffer (checked under SpecMem) *)

\* C11, as the claim states it: after LD B,Vx with I + 2 inside memory the
\* three bytes from I on are the hundreds, tens and ones digit of Vx.
C11_BcdMostSignificantFirst ==
    (CycleDone /\ LastOp = "LdBVx" /\ before.address_register + 2 < RAM_SIZE) =>
        LET v == before.registers[instruction.instr.x]
            at == before.address_register
        IN  /\ mem_byte(memory, at) = v \div 100
            /\ mem_byte(memory, at + 1) = (v \div 10) % 10
            /\ mem_byte(memory, at + 2) = v % 10

\* The columns lit in a row: Window::draw shows bit WIDTH - 1 - x of the
\* row in column x.
Columns(row) == {WIDTH - 1 - j : j \in row}

\* The row bits of sprite byte b at horizontal position vx: bit k of the
\* byte, k = 0 the most significant, in column (vx + k) mod 64.
SpriteAt(b, vx) ==
    {63 - ((vx + k) % 64) : k \in {k \in 0..7 : (b \div (2 ^ (7 - k))) % 2 = 1}}

Toggled(row, pattern) == (row \cup pattern) \ (row \cap pattern)

\* The frame buffer `old` with the n bytes of mem from `at` on drawn at
\* (vx, vy).
Drawn(old, mem, at, n, vx, vy) ==
    [row \in 0..31 |->
        IF \E k \in 0..(n - 1) : (vy + k) % 32 = row
        THEN LET k == CHOOSE k \in 0..(n - 1) : (vy + k) % 32 = row
             IN  Toggled(old[row], SpriteAt(mem_byte(mem, at + k), vx))
        ELSE old[row]]

\* C12: DRW Vx,Vy,n leaves row (Vy + i) mod 32 equal to the old row XOR the
\* bits of sprite byte i, bit k of the byte (from the most significant) in
\* column (Vx + k) mod 64, for i in 0..n-1, and every other row unchanged.
C12_DrawXorWraps ==
    (CycleDone /\ LastOp = "Drw") =>
        LET i == instruction.instr
        IN  frame_buffer =
                Drawn(before.frame_buffer, before.memory, before.address_register,
                      i.n, before.registers[i.x], before.registers[i.y])

\* The two-row sprite 0xFF, 0x81 drawn at (60, 31) on an empty screen: row
\* 31 shows columns 60..63 and 0..3, row 0 shows columns 60 and 3.
C12_Witness ==
    /\ CycleDone
    /\ LastOp = "Drw"
    /\ instruction.instr.n = 2
    /\ before.registers[instruction.instr.x] = 60
    /\ before.registers[instruction.instr.y] = 31
    /\ \A row \in 0..31 : before.frame_buffer[row] = {}
    /\ Columns(frame_buffer[31]) = {60, 61, 62, 63, 0, 1, 2, 3}
    /\ Columns(frame_buffer[0]) = {60, 3}

\* C13, as the claim states it: after DRW, VF = 1 if and only if some pixel
\* that was lit before the instruction is unlit after it, and VF = 0
\* otherwise.
C13_CollisionIsOrOfRows ==
    (CycleDone /\ LastOp = "Drw") =>
        registers[REG_VF] =
            IF \E row \in 0..31 : before.frame_buffer[row] \ frame_buffer[row] # {}
            THEN 1 ELSE 0

\* The last two loop bodies were DRWs of the same sprite at the same place:
\* the same n, and the same I, Vx, Vy and sprite bytes when each began.
SameDrawTwice ==
    /\ CycleDone
    /\ LastOp = "Drw"
    /\ before.last.instruction.ok
    /\ before.last.instruction.instr.op = "Drw"
    /\ LET first == before.last.instruction.instr
           second == instruction.instr
       IN  /\ first.n = second.n
           /\ before.last.address_register = before.address_register
           /\ before.last.registers[first.x] = before.registers[second.x]
           /\ before.last.registers[first.y] = before.registers[second.y]
           /\ \A k \in 0..(first.n - 1) :
                 mem_byte(before.last.memory, before.address_register + k)
                    = mem_byte(before.memory, before.address_register + k)

\* C14: drawing the same sprite twice in a row at the same place leaves
\* every row of the frame buffer as it was before the first draw; for the
\* one-row sprite 0xFF on an empty row the first draw leaves VF = 0 and the
\* second leaves the row empty again and VF = 1.
C14_DrawTwiceRestores ==
    SameDrawTwice =>
        /\ frame_buffer = before.last.frame_buffer
        /\ LET i == instruction.instr
               row == before.registers[i.y] % 32
           IN  ( /\ i.n = 1
                 /\ mem_byte(before.memory, before.address_register) = 255
                 /\ before.last.frame_buffer[row] = {} ) =>
                     /\ Cardinality(before.frame_buffer[row]) = 8
                     /\ before.registers[REG_VF] = 0
                     /\ frame_buffer[row] = {}
                     /\ registers[REG_VF] = 1

\* The sprite 0xFF drawn twice at x = 60, where it wraps: the second draw
\* has cleared the eight pixels of the first.
C14_Witness ==
    /\ SameDrawTwice
    /\ instruction.instr.n = 1
    /\ before.registers[instruction.instr.x] = 60
    /\ Columns(before.frame_buffer[before.registers[instruction.instr.y] % 32])
          = {60, 61, 62, 63, 0, 1, 2, 3}
    /\ \A row \in 0..31 : frame_buffer[row] = {}
    /\ before.registers[REG_VF] = 0
    /\ registers[REG_VF] = 1

\* The last three loop bodies were LD [I],Vx, an instruction that does not
\* write memory, and LD Vx,[I] with the same x and the same I.
StoreThenLoad ==
    /\ CycleDone
    /\ LastOp = "LdVxI"
    /\ before.last.instruction.ok
    /\ before.last.instruction.instr.op \notin {"LdIVx", "LdBVx"}
    /\ before.last.last.instruction.ok
    /\ before.last.last.instruction.instr.op = "LdIVx"
    /\ before.last.last.instruction.instr.x = instruction.instr.x
    /\ before.last.last.address_register = before.address_register

\* C18: LD [I],Vx writes old V0..Vx to memory[I..I+x] and changes no register,
\* not I and no other memory byte; LD Vx,[I] sets V0..Vx from memory[I..I+x]
\* and changes no memory, not I and no register above x; LD [I],Vx followed,
\* after an instruction that may write the registers, by LD Vx,[I] with the
\* same I and x leaves V0..Vx as they were before the store.
C18_StoreThenLoad ==
    CycleDone =>
        LET i == instruction.instr
            at == before.address_register
            r == before.registers
        IN  /\ i.op = "LdIVx" =>
                  /\ registers = r
                  /\ address_register = at
                  /\ \A a \in 0..(RAM_SIZE - 1) :
                        mem_byte(memory, a) =
                            IF a \in at..(at + i.x) THEN r[a - at]
                            ELSE mem_byte(before.memory, a)
            /\ i.op = "LdVxI" =>
                  /\ memory = before.memory
                  /\ address_register = at
                  /\ registers =
                        [n \in 0..15 |->
                            IF n <= i.x THEN mem_byte(before.memory, at + n) ELSE r[n]]
            /\ StoreThenLoad =>
                  \A n \in 0..i.x : registers[n] = before.last.last.registers[n]

\* V0 and V1 were stored, V0 was then overwritten, and the load has brought
\* the stored value back.
C18_Witness ==
    /\ StoreThenLoad
    /\ instruction.instr.x = 1
    /\ before.last.last.registers[0] = 255
    /\ before.registers[0] = 7
    /\ registers[0] = 255
    /\ registers[1] = 2
    /\ mem_byte(memory, before.address_register) = 255

----------------------------------------------------------------------------
(* Claims about the timers, the window and the keys (checked under Spec) *)

\* C15, as the claim states it: when LD DT,Vx has set the delay timer to 2
\* and at least 2 timer periods have gone by since, with no write to the
\* timer, LD Vx,DT reads 0.
C15_TimerDecay ==
    ( /\ CycleDone
      /\ LastOp = "LdVxDt"
      /\ before.delay_set.written
      /\ before.delay_set.value = 2
      /\ before.delay_set.periods >= 2 ) =>
          registers[instruction.instr.x] = 0

\* The queue holds the command.
Queued(queue, cmd) == \E k \in 1..Len(queue) : queue[k] = cmd

\* C16, as the claim states it: with the window thread running, the step in
\* which the sound timer goes from zero to nonzero queues an audio-on
\* command, and the step in which it goes from nonzero to zero queues an
\* audio-off command.
C16_SoundCommands ==
    [][ thread = "running" =>
            /\ (sound_register = 0 /\ sound_register' > 0)
                  => Queued(rx', CmdControlSound(TRUE))
            /\ (sound_register > 0 /\ sound_register' = 0)
                  => Queued(rx', CmdControlSound(FALSE)) ]_vars

AtCls ==
    status = "fetch" /\ read_u16_in_range(program_counter) /\ Fetched = 224

\* C17: after CLS all 32 rows of the frame buffer are 0, the counter is
\* old + 2, and registers, I, memory, stack, stack pointer are unchanged (the
\* timers only take the tick of the cycle); the step that executes it adds
\* exactly one Clear, and no Draw, to the queue of a running window thread.
C17_Cls ==
    /\ []((CycleDone /\ LastOp = "Cls") =>
            /\ \A row \in 0..31 : frame_buffer[row] = {}
            /\ program_counter = before.program_counter + 2
            /\ registers = before.registers
            /\ address_register = before.address_register
            /\ memory = before.memory
            /\ stack = before.stack
            /\ stack_pointer = before.stack_pointer
            /\ TimersOnlyTick)
    /\ [][(AtCls /\ program_counter' # program_counter) =>
            /\ status' = "fetch"
            /\ instruction' = Ok(Plain("Cls"))
            /\ rx' = IF thread = "running" THEN Append(rx, CmdClear) ELSE rx]_vars

\* CLS has cleared a screen on which a sprite had been drawn; the Clear is
\* in the queue behind the Draw.
C17_Witness ==
    /\ CycleDone
    /\ LastOp = "Cls"
    /\ \E row \in 0..31 : before.frame_buffer[row] # {}
    /\ \A row \in 0..31 : frame_buffer[row] = {}
    /\ thread = "running"
    /\ rx = <<CmdDraw, CmdClear>>

Waiting == status = "wait_for_key_press"

\* While the engine waits in LD Vx,K nothing of it changes, no timer
\* included, and only a release reported after the window took the wait
\* command adds a response.
C19_Suspended ==
    Waiting =>
        /\ status' \in {"wait_for_key_press", "fetch"}
        /\ Waiting' =>
              /\ EngineSame
              /\ UNCHANGED <<instruction, instruction_bytes, timer_clock, before>>
        /\ respond_rx' # respond_rx =>
              \/ status' = "fetch"
              \/ /\ wait_for_key /\ ~wait_for_key'
                 /\ ~Queued(rx, CmdWaitKeyPress)
                 /\ respond_rx = << >>
                 /\ Len(respond_rx') = 1

KeyQuery == instruction.ok /\ instruction.instr.op \in {"Skp", "Sknp"}

\* C20: with the window thread gone, before the query is sent or between the
\* query and its response, SKP Vx does not skip, SKNP Vx skips, and the
\* engine goes on to the next instruction: a key query never ends the
\* engine.
C20_DeadCollaboratorGraceful ==
    /\ [](KeyQuery => status # "panic")
    /\ [][(status = "is_key_pressed" /\ thread # "running" /\ respond_rx = << >>) =>
            /\ status' = "fetch"
            /\ program_counter' =
                  program_counter + (IF instruction.instr.op = "Sknp" THEN 2 ELSE 0)]_vars

AtLdVxK ==
    /\ status = "fetch"
    /\ read_u16_in_range(program_counter)
    /\ Fetched # 0
    /\ try_from(Fetched).ok
    /\ try_from(Fetched).instr.op = "LdVxK"

\* C21: LD Vx,K never hangs on a window thread that is gone.  Gone before the
\* wait command is sent, the engine ends with a panic; gone while the engine
\* is blocked, the engine resumes with a value in Vx (a response left in the
\* channel, else 0), and it always does resume.
C21_NoHangOnDeadWindow ==
    /\ [][(AtLdVxK /\ thread # "running" /\ status' # status) => status' = "panic"]_vars
    /\ [][(Waiting /\ thread # "running" /\ ~Waiting') =>
            /\ status' = "fetch"
            /\ registers' = [registers EXCEPT ![instruction.instr.x] =
                   IF respond_rx # << >> THEN Head(respond_rx) ELSE 0]]_vars
    /\ ((Waiting /\ thread # "running") ~> ~Waiting)

\* The window thread took the wait command and exited without reporting a
\* release; the engine has resumed from LD Vx,K with Vx = 0.
C21_Witness ==
    /\ CycleDone
    /\ LastOp = "LdVxK"
    /\ thread = "exited"
    /\ wait_for_key
    /\ respond_rx = << >>
    /\ registers[instruction.instr.x] = 0

----------------------------------------------------------------------------
(* The frame buffer's lock.  draw_sprite and Window::clear on the engine's   *)
(* thread and Window::draw on the window's thread, one step per lock        *)
(* operation and per row, so that the two threads interleave between rows.  *)

\* The DRW and CLS instructions the engine executes in this specification.
MaxOps == 2

\* The sprites drawn: two rows at the bottom right corner, wrapping both
\* ways, and one pixel at the top left.
DrawOps == { [draw_bytes |-> <<255, 129>>, x |-> 60, y |-> 31],
             [draw_bytes |-> <<128>>, x |-> 0, y |-> 0] }

OtherUnchanged ==
    UNCHANGED <<memory, program_counter, address_register, sound_register,
                timer_register, stack_pointer, stack, respond_rx, thread,
                wait_for_key, instruction_bytes, instruction, status,
                timer_clock, delay_set, before>>

\* draw_sprite: read_bytes(..).to_vec(), before the lock is asked for
BeginDrw ==
    /\ engine_at.at = "idle"
    /\ engine_at.ops < MaxOps
    /\ \E op \in DrawOps :
          engine_at' = [at |-> "lock_draw", draw_bytes |-> op.draw_bytes,
                        x |-> op.x, y |-> op.y, i |-> 0, ops |-> engine_at.ops + 1]
    /\ OtherUnchanged
    /\ UNCHANGED <<registers, frame_buffer, rx, rw_lock, window_at, canvas, whole>>

\* A write() that does not wait for the reader.
WriteLockDraw_ignores_reader ==
    /\ engine_at.at = "lock_draw"
    /\ rw_lock' = "write"
    /\ engine_at' = [engine_at EXCEPT !.at = "rows"]
    /\ OtherUnchanged
    /\ UNCHANGED <<registers, frame_buffer, rx, window_at, canvas, whole>>

\* draw_sprite: self.frame_buffer.write().unwrap() waits until nobody holds
\* the lock
WriteLockDraw ==
    /\ engine_at.at = "lock_draw"
    /\ rw_lock = "free"
    /\ rw_lock' = "write"
    /\ engine_at' = [engine_at EXCEPT !.at = "rows"]
    /\ OtherUnchanged
    /\ UNCHANGED <<registers, frame_buffer, rx, window_at, canvas, whole>>

\* draw_sprite: one pass of the loop over draw_bytes
DrawRow ==
    /\ engine_at.at = "rows"
    /\ engine_at.i < Len(engine_at.draw_bytes)
    /\ LET coord == (engine_at.y + engine_at.i) % HEIGHT
           original == frame_buffer[coord]
           res == RowXor(original,
                         rotate_right(Bits(engine_at.draw_bytes[engine_at.i + 1]),
                                      engine_at.x + 8))
       IN  /\ registers' = [registers EXCEPT ![REG_VF] =
                               IF (original \ res) # {} THEN 1 ELSE 0]
           /\ frame_buffer' = [frame_buffer EXCEPT ![coord] = res]
    /\ engine_at' = [engine_at EXCEPT !.i = @ + 1]
    /\ OtherUnchanged
    /\ UNCHANGED <<rx, rw_lock, window_at, canvas, whole>>

\* draw_sprite returns: the write guard is dropped
UnlockDraw ==
    /\ engine_at.at = "rows"
    /\ engine_at.i = Len(engine_at.draw_bytes)
    /\ rw_lock' = "free"
    /\ whole' = whole \cup {frame_buffer}
    /\ engine_at' = [engine_at EXCEPT !.at = "queue_draw"]
    /\ OtherUnchanged
    /\ UNCHANGED <<registers, frame_buffer, rx, window_at, canvas>>

\* Window::queue_draw, at the end of the loop body of a Drw
QueueDraw ==
    /\ engine_at.at = "queue_draw"
    /\ Len(rx) < MaxQueue
    /\ rx' = send(rx, <<CmdDraw>>)
    /\ engine_at' = EngineIdle(engine_at.ops)
    /\ OtherUnchanged
    /\ UNCHANGED <<registers, frame_buffer, rw_lock, window_at, canvas, whole>>

\* Window::clear: the command is sent before the lock is asked for
BeginCls ==
    /\ engine_at.at = "idle"
    /\ engine_at.ops < MaxOps
    /\ Len(rx) < MaxQueue
    /\ rx' = send(rx, <<CmdClear>>)
    /\ engine_at' = [EngineIdle(engine_at.ops + 1) EXCEPT !.at = "lock_clear"]
    /\ OtherUnchanged
    /\ UNCHANGED <<registers, frame_buffer, rw_lock, window_at, canvas, whole>>

\* Window::clear: self.frame_buffer.write().unwrap()
WriteLockClear ==
    /\ engine_at.at = "lock_clear"
    /\ rw_lock = "free"
    /\ rw_lock' = "write"
    /\ engine_at' = [engine_at EXCEPT !.at = "fill"]
    /\ OtherUnchanged
    /\ UNCHANGED <<registers, frame_buffer, rx, window_at, canvas, whole>>

\* Window::clear: frame_buffer.fill(0), row after row
FillRow ==
    /\ engine_at.at = "fill"
    /\ engine_at.i < HEIGHT
    /\ frame_buffer' = [frame_buffer EXCEPT ![engine_at.i] = {}]
    /\ engine_at' = [engine_at EXCEPT !.i = @ + 1]
    /\ OtherUnchanged
    /\ UNCHANGED <<registers, rx, rw_lock, window_at, canvas, whole>>

\* Window::clear returns: the write guard is dropped
UnlockClear ==
    /\ engine_at.at = "fill"
    /\ engine_at.i = HEIGHT
    /\ rw_lock' = "free"
    /\ whole' = whole \cup {frame_buffer}
    /\ engine_at' = EngineIdle(engine_at.ops)
    /\ OtherUnchanged
    /\ UNCHANGED <<registers, frame_buffer, rx, window_at, canvas>>

\* Ok(WindowCommand::Draw) => Self::draw(..) is entered
TakeDraw ==
    /\ window_at.at = "idle"
    /\ rx # << >> /\ Head(rx) = CmdDraw
    /\ rx' = Tail(rx)
    /\ window_at' = [window_at EXCEPT !.at = "lock_read"]
    /\ OtherUnchanged
    /\ UNCHANGED <<registers, frame_buffer, rw_lock, engine_at, canvas, whole>>

\* Window::draw: frame_buffer.read().unwrap() waits while the writer holds
\* the lock; then canvas.clear()
ReadLock ==
    /\ window_at.at = "lock_read"
    /\ rw_lock = "free"
    /\ rw_lock' = "read"
    /\ window_at' = [at |-> "rows", y |-> 0]
    /\ canvas' = Blank
    /\ OtherUnchanged
    /\ UNCHANGED <<registers, frame_buffer, rx, engine_at, whole>>

\* Window::draw: one pass of the loop over y, the rectangles of row y
CopyRow ==
    /\ window_at.at = "rows"
    /\ window_at.y < HEIGHT
    /\ canvas' = [canvas EXCEPT ![window_at.y] = Columns(frame_buffer[window_at.y])]
    /\ window_at' = [window_at EXCEPT !.y = @ + 1]
    /\ OtherUnchanged
    /\ UNCHANGED <<registers, frame_buffer, rx, rw_lock, engine_at, whole>>

\* Window::draw: canvas.present(), and the read guard is dropped
ReadUnlock ==
    /\ window_at.at = "rows"
    /\ window_at.y = HEIGHT
    /\ rw_lock' = "free"
    /\ window_at' = [window_at EXCEPT !.at = "idle"]
    /\ OtherUnchanged
    /\ UNCHANGED <<registers, frame_buffer, rx, engine_at, canvas, whole>>

\* Ok(WindowCommand::Clear) => canvas.clear()
TakeClear ==
    /\ window_at.at = "idle"
    /\ rx # << >> /\ Head(rx) = CmdClear
    /\ rx' = Tail(rx)
    /\ canvas' = Blank
    /\ window_at' = [at |-> "idle", y |-> HEIGHT]
    /\ OtherUnchanged
    /\ UNCHANGED <<registers, frame_buffer, rw_lock, engine_at, whole>>

NextLock ==
    \/ BeginDrw
    \/ WriteLockDraw
    \/ DrawRow
    \/ UnlockDraw
    \/ QueueDraw
    \/ BeginCls
    \/ WriteLockClear
    \/ FillRow
    \/ UnlockClear
    \/ TakeDraw
    \/ ReadLock
    \/ CopyRow
    \/ ReadUnlock
    \/ TakeClear

SpecLock == InitRom({<<0>>}) /\ [][NextLock]_vars

----------------------------------------------------------------------------
(* Claims about the frame buffer's lock (checked under SpecLock) *)

\* The rows on the canvas are rows of one frame buffer as it stood between
\* whole DRW/CLS.
CanvasIsWhole ==
    \E w \in whole : \A r \in 0..(window_at.y - 1) : canvas[r] = Columns(w[r])

\* C22: only the engine writes the frame buffer, and only while it holds the
\* write lock inside a DRW or CLS; the window thread only reads it; and the
\* rows Window::draw copies are those of the frame buffer before or after a
\* whole DRW/CLS, never of a sprite half drawn, however the threads
\* interleave.
C22_NoTornFrame ==
    /\ [](CanvasIsWhole)
    /\ []((rw_lock = "write") = (engine_at.at \in {"rows", "fill"}))
    /\ []((rw_lock = "read") = (window_at.at = "rows"))
    /\ [][frame_buffer' # frame_buffer =>
            /\ rw_lock = "write" /\ rw_lock' = "write"
            /\ engine_at.at \in {"rows", "fill"}
            /\ engine_at' # engine_at
            /\ UNCHANGED <<window_at, canvas>>]_vars
    /\ [][window_at' # window_at => frame_buffer' = frame_buffer]_vars

\* Window::draw has copied the first row of a frame with a sprite on it while
\* the engine, with its next two-row sprite read, waits for the write lock.
C22_Witness ==
    /\ window_at.at = "rows"
    /\ window_at.y = 1
    /\ canvas[0] # {}
    /\ engine_at.at = "lock_draw"
    /\ Len(engine_at.draw_bytes) = 2

----------------------------------------------------------------------------
(* Further claims about memory (checked under SpecMem) *)

\* The number of decimal digits of v, none for 0.
RECURSIVE Digits(_)
Digits(v) == IF v = 0 THEN 0 ELSE 1 + Digits(v \div 10)

\* The addresses the loop body about to run reads or writes: the two bytes
\* of the fetch, then those of the instruction fetched.
Touched ==
    LET fetch == {program_counter, program_counter + 1}
        i == try_from(Fetched)
        from(len) == address_register .. (address_register + len - 1)
    IN  IF ~read_u16_in_range(program_counter) \/ Fetched = 0 \/ ~i.ok THEN fetch
        ELSE fetch \cup
             CASE i.instr.op = "Drw" -> from(i.instr.n)
               [] i.instr.op = "LdBVx" -> from(Digits(registers[i.instr.x]))
               [] i.instr.op \in {"LdIVx", "LdVxI"} -> from(i.instr.x + 1)
               [] OTHER -> {}

\* C23: every address an instruction uses lies in 0x000..0xFFF, or the
\* engine stops with a panic: a fetch, a sprite read by DRW, a LD B,Vx,
\* LD [I],Vx or LD Vx,[I] that would touch an address above 0xFFF ends
\* execution, and nothing is ever stored outside the 4096 bytes of memory.
C23_AccessInRangeOrFatal ==
    /\ [](DOMAIN memory \subseteq 0..(RAM_SIZE - 1))
    /\ [][(status = "fetch" /\ ~(Touched \subseteq 0..(RAM_SIZE - 1))) =>
            status' = "panic"]_vars
    /\ [][(status = "fetch" /\ status' = "fetch") =>
            Touched \subseteq 0..(RAM_SIZE - 1)]_vars

\* LD B,V0 with V0 >= 10 and I = 0xFFF has stopped the engine: the second
\* digit would go to 0x1000.
C23_Witness ==
    /\ status = "panic"
    /\ instruction.ok
    /\ instruction.instr.op = "LdBVx"
    /\ address_register = RAM_SIZE - 1
    /\ registers[instruction.instr.x] >= 10

----------------------------------------------------------------------------
(* Further claims about the stack and the registers (checked under SpecCpu) *)

\* C24: the stack pointer is incremented before the return address is
\* stored, so the first call stores in slot 1; in every state slot 0 holds
\* its initial 0 and the stack pointer is the call depth, a slot index of
\* the stack: a call adds a slot above the active ones, which stay in call
\* order, and a return gives the top one up.
C24_SlotZeroUnused ==
    /\ stack[0] = 0
    /\ stack_pointer \in 0..(STACK_SIZE - 1)
    /\ (CycleDone /\ LastOp \in {"Call", "Sys"}) =>
          /\ stack_pointer = before.stack_pointer + 1
          /\ stack = [before.stack EXCEPT ![stack_pointer] = before.program_counter + 2]
          /\ before.stack_pointer = 0 => stack[1] = before.program_counter + 2
    /\ (CycleDone /\ LastOp = "Ret") =>
          /\ stack_pointer = before.stack_pointer - 1
          /\ stack = before.stack

----------------------------------------------------------------------------
(* Further claims about the timers, the window and the keys (checked under   *)
(* Spec)                                                                     *)

\* A step that ends a loop body: what it does to the timers.  The
\* instruction sets a timer or leaves it; then both timers take one tick
\* together or none.  No tick means no period had gone by; a tick means one
\* had, before the body or during it (seen in delay_set where that counts).
BodySetsAndTicks ==
    /\ before' # before \/ status \in {"is_key_pressed", "wait_for_key_press"}
    /\ status' = "fetch"
    /\ instruction'.ok
    /\ LET i == instruction'.instr
           set_t == IF i.op = "LdDtVx" THEN registers[i.x] ELSE timer_register
           set_s == IF i.op = "LdStVx" THEN registers[i.x] ELSE sound_register
           slept == IF i.op = "Drw" THEN 1 ELSE 0
           counted == /\ delay_set.written /\ i.op # "LdDtVx"
                      /\ delay_set'.periods < MaxPeriods
           gone == delay_set'.periods - delay_set.periods - slept
       IN  \/ /\ timer_register' = set_t
              /\ sound_register' = set_s
              /\ (set_t > 0 \/ set_s > 0) =>
                    /\ timer_clock = 0
                    /\ counted => gone = 0
           \/ /\ timer_register' = saturating_sub(set_t, 1)
              /\ sound_register' = saturating_sub(set_s, 1)
              /\ timer_clock' = slept
              /\ (timer_clock = 0 /\ counted) => gone >= 1

AtDrw ==
    /\ status = "fetch"
    /\ read_u16_in_range(program_counter)
    /\ Fetched # 0
    /\ try_from(Fetched).ok
    /\ try_from(Fetched).instr.op = "Drw"

\* The Draw commands in a queue.
Draws(queue) == Cardinality({k \in 1..Len(queue) : queue[k] = CmdDraw})

\* C26: a DRW that is executed sends exactly one Draw, in the step that has
\* written all rows of the sprite and before the next fetch (the queue of a
\* running window thread gets it); no other step adds a Draw; commands are
\* added at the back of the queue and taken from the front; and the ROM
\* LD V0,5; ADD V0,3; 0 ends with Ok and V0 = 8, no command ever sent.
C26_OneDrawPerDrw ==
    /\ [][(AtDrw /\ program_counter' # program_counter) =>
            LET i == try_from(Fetched).instr
            IN  /\ status' = "fetch"
                /\ frame_buffer' = Drawn(frame_buffer, memory, address_register, i.n,
                                         registers[i.x], registers[i.y])
                /\ rx' = IF thread = "running" THEN Append(rx, CmdDraw) ELSE rx]_vars
    /\ [][Draws(rx') > Draws(rx) =>
            /\ AtDrw /\ program_counter' # program_counter
            /\ rx' = Append(rx, CmdDraw)]_vars
    /\ [][\/ rx' = rx
          \/ rx # << >> /\ rx' = Tail(rx)
          \/ rx' = << >>
          \/ Len(rx') = Len(rx) + 1 /\ SubSeq(rx', 1, Len(rx)) = rx]_vars
    /\ [](QuietMemory => /\ rx = << >>
                         /\ status \in {"fetch", "Ok"}
                         /\ status = "Ok" => registers[0] = 8)
    /\ (QuietMemory ~> (status = "Ok" /\ registers[0] = 8))

\* DRW V0,V0,1 has run on an empty screen with the window thread running and
\* its queue empty: the font's first row is lit in row 1 and one Draw is
\* queued.
C26_Witness ==
    /\ CycleDone
    /\ LastOp = "Drw"
    /\ thread = "running"
    /\ before.frame_buffer = Blank
    /\ frame_buffer # Blank
    /\ rx = <<CmdDraw>>

Blocked == status \in {"is_key_pressed", "wait_for_key_press"}

\* The response channel as a slot: never more than one message, none unless
\* the engine is blocked on a request; a response is added only by the
\* window thread taking an IsPressed (0 or 1) or reporting a release while
\* wait_for_key is set (a key 0..15), and only to the empty channel; what
\* the engine takes is the answer to the request it is blocked on.
SlotDiscipline ==
    /\ [](Len(respond_rx) <= 1)
    /\ [](respond_rx # << >> => Blocked)
    /\ [](respond_rx # << >> =>
            IF status = "is_key_pressed" THEN respond_rx[1] \in {0, 1}
            ELSE respond_rx[1] \in 0..15)
    /\ [][respond_rx' # respond_rx =>
            \/ /\ respond_rx = << >> /\ Len(respond_rx') = 1
               /\ \/ /\ status = "is_key_pressed"
                     /\ rx # << >> /\ Head(rx).cmd = "IsPressed" /\ rx' = Tail(rx)
                  \/ /\ status = "wait_for_key_press"
                     /\ wait_for_key /\ ~wait_for_key' /\ rx' = rx
            \/ /\ respond_rx' = << >>
               /\ Blocked /\ status' = "fetch"]_vars
    /\ [][(rx # << >> /\ Head(rx).cmd \in {"Draw", "Clear"} /\ rx' = Tail(rx)) =>
            respond_rx' = respond_rx]_vars

----------------------------------------------------------------------------
(* A further claim about the registers (checked under SpecCpu) *)

FlagOps == {"AddVxVy", "Sub", "Subn", "Shr", "Shl"}

\* The result and the flag of the five instructions, from the values vx and
\* vy the registers held before.
ResultOf(op, vx, vy) ==
    CASE op = "AddVxVy" -> (vx + vy) % 256
      [] op = "Sub" -> (vx - vy + 256) % 256
      [] op = "Subn" -> (vy - vx + 256) % 256
      [] op = "Shr" -> vy \div 2
      [] op = "Shl" -> (vy * 2) % 256

FlagOf(op, vx, vy) ==
    CASE op = "AddVxVy" -> IF vx + vy > 255 THEN 1 ELSE 0
      [] op = "Sub" -> IF vx >= vy THEN 1 ELSE 0
      [] op = "Subn" -> IF vy >= vx THEN 1 ELSE 0
      [] op = "Shr" -> vy % 2
      [] op = "Shl" -> vy \div 128

----------------------------------------------------------------------------
(* A further claim about the keys (checked under Spec) *)

AtKeyQuery ==
    /\ status = "fetch"
    /\ read_u16_in_range(program_counter)
    /\ Fetched # 0
    /\ try_from(Fetched).ok
    /\ try_from(Fetched).instr.op \in {"Skp", "Sknp"}

====
